---- MODULE Spec2Model ----
(***************************************************************************)
(* badmerger: typed field codec, schema, record writer, storage backends   *)
(* (badger / lotus) and the streaming merge engine.                        *)
(*                                                                         *)
(* Go values (`any`) are records [t, n, s]: t the dynamic Go type, n the   *)
(* number of a numeric value, s the bytes of a string.  Byte strings are   *)
(* sequences over 0..255.  A Go map[string]any is a function whose domain  *)
(* is the set of names present.                                            *)
(***************************************************************************)
EXTENDS Integers, Sequences, FiniteSets, TLC

VARIABLES
    build,      \* how this build converts a float that the unsigned target cannot hold
    \* -- codec runs
    cKind,      \* the field kind under test
    cA, cB,     \* two Go values handed to the encoder
    cTail,      \* bytes that follow the encoded value in the buffer
    cEncA, cEncB, \* encoder outputs
    cDec,       \* decoder output for cEncA \o cTail
    cPc,        \* "start" | "encoded" | "decoded"
    \* -- store construction
    oOpts,      \* the options the caller passes to Open
    fs,         \* the schema descriptor (schema.json) found in each directory
    oRes,       \* what Open returned: [err, w]
    handles,    \* backend handles opened and not closed
    oPc,        \* "start" | "opened" | "failed" | "closed" | "destroyed"
    \* -- record writer runs
    wDb,        \* the dbWrapper (schema) in use
    wRecord,    \* the record handed to extractKeysAndValues
    wOut,       \* its result: key payload, value payload, the record afterwards
    wDecoded,   \* RestoreValue of the value payload
    wPc,        \* "start" | "written" | "restored"
    \* -- ingestion: reader, channel, Recv, backend inserter
    gDb,        \* the dbWrapper Recv runs on
    store,      \* the backend's committed entries: key bytes -> value bytes
    txn,        \* the inserter's current transaction or batch
    ch,         \* the records in the channel
    chClosed,   \* the reader closed the channel
    nRead,      \* the reader's sequence number i
    recvPc,     \* "idle" | "running" | "returned"
    recvErr,    \* Recv returned an error
    lww,        \* history: last value per key over all pairs passed to Insert
    failed,     \* history: a backend write or commit failed and no retry made it good
    rolled,     \* history: rollovers done by Insert
    faultsLeft, \* backend failures the environment may still inject
    srcLen,     \* the number of lines the source holds before it ends
    run,        \* which run of the program into the store directory this is
    sent,       \* history: the records the reader sent to the channel
    inserted,   \* history: the records Recv passed to Insert
    committed,  \* history: Recv's deferred Commit succeeded
    mainPc,     \* "recv" | "iter" | "exit": main waits for Recv, iterates, has left
    \* -- merge iteration
    iDb,        \* the dbWrapper the iterator wraps
    iStore,     \* the entries the backend iterates
    partialKeys, aggs, \* the Merger's partial keys and named aggregations
    itNil,      \* WithPartialKey returned nil
    lastName,   \* history: the name the last WithPartialKey call was given
    iterPc,     \* "idle" | "running" | "done" | "error" | "panic"
    iterErr,    \* why Iter ended with an error or a panic
    pos,        \* the iterator's position, 1-based, in ascending key order
    lastKeyBytes, lastKeyMap, valueMaps, \* Iterate's locals
    emitted,    \* history: the callback's calls, with the collection merged
    cbFailedAt, \* history: the call at which the callback returned an error, or 0
    \* -- aggregator runs
    aColl,      \* the collection of value-records handed to the aggregator
    aAgg,       \* the aggregator chooseAggregator returned
    aOut,       \* what its on method returned
    aPc         \* "start" | "done" | "panic"

codecVars == <<cKind, cA, cB, cTail, cEncA, cEncB, cDec, cPc>>
openVars == <<oOpts, fs, oRes, handles, oPc>>
writerVars == <<wDb, wRecord, wOut, wDecoded, wPc>>
ingestVars ==
    <<gDb, store, txn, ch, chClosed, nRead, recvPc, recvErr, lww, failed, rolled, faultsLeft,
      srcLen, run, sent, inserted, committed, mainPc>>
iterVars ==
    <<iDb, iStore, partialKeys, aggs, itNil, lastName, iterPc, iterErr, pos,
      lastKeyBytes, lastKeyMap, valueMaps, emitted, cbFailedAt>>
aggVars == <<aColl, aAgg, aOut, aPc>>
vars == <<build, codecVars, openVars, writerVars, ingestVars, iterVars, aggVars>>

-----------------------------------------------------------------------------
(* Go dynamic values *)

Nil == [t |-> "nil", n |-> 0, s |-> <<>>]
GoNum(t, n) == [t |-> t, n |-> n, s |-> <<>>]
GoStr(s) == [t |-> "string", n |-> 0, s |-> s]

IntKinds == {"int8", "int16", "int32", "int64"}

\* The Go types the integer encoders' type switches accept.
SwitchIntTypes == {"int", "int64", "int32", "int16", "int8"}
SwitchFloatTypes == {"float64", "float32"}

\* Encoded width, in bytes, of an integer kind.
Width(kind) ==
    CASE kind = "int8" -> 1
      [] kind = "int16" -> 2
      [] kind = "int32" -> 4
      [] kind = "int64" -> 8

RECURSIVE Shr8(_, _)
\* v shifted right by 8*k bits (arithmetic shift: floor division).
Shr8(v, k) == IF k = 0 THEN v ELSE Shr8(v \div 256, k - 1)

RECURSIVE Pow256(_)
Pow256(k) == IF k = 0 THEN 1 ELSE 256 * Pow256(k - 1)

\* binary.BigEndian.PutUintN(b, num) for num = v mod 2^(8w): byte i (1-based)
\* holds bits 8(w-i) .. 8(w-i)+7 of the two's-complement pattern of v.
PutUintBE(v, w) == [i \in 1..w |-> Shr8(v, w - i) % 256]

\* A float64 whose integer part the w-byte unsigned target can represent.
FloatRepresentable(f, w) == f >= 0 /\ (w >= 4 \/ f < Pow256(w))

\* uintN(v) for a float v.  Go: "if the result type cannot represent the value
\* the conversion succeeds but the result value is implementation-dependent".
\* The builds differ: the two's-complement pattern is truncated ("wrap", as
\* on amd64) or the result is clamped to the target's bounds ("saturate", as
\* the unsigned conversion instruction of arm64 does for the 64-bit target).
\* The result is a number congruent to the stored pattern mod 2^(8w).
FloatToUint(f, w, b) ==
    IF FloatRepresentable(f, w) \/ b = "wrap" THEN f
    ELSE IF f < 0 THEN 0 ELSE -1

\* The type switch of toInt8Binary .. toInt64Binary: the number whose low 8w
\* bits are stored.
ToUint(x, w, b) ==
    IF x.t \in SwitchFloatTypes THEN FloatToUint(x.n, w, b)
    ELSE IF x.t \in SwitchIntTypes THEN x.n
    ELSE 0

toIntBinary(x, w, b) == PutUintBE(ToUint(x, w, b), w)

RECURSIVE Horner(_, _, _)
Horner(bs, i, acc) ==
    IF i > Len(bs) THEN acc ELSE Horner(bs, i + 1, acc * 256 + bs[i])

\* intN(binary.BigEndian.UintN(b)): the signed reading of the first w bytes.
SignedBE(bs, w) ==
    LET hd == SubSeq(bs, 1, w)
        top == IF hd[1] >= 128 THEN hd[1] - 256 ELSE hd[1]
    IN Horner(hd, 2, top)

\* A decoder's result: the value, the bytes consumed, and whether it returned
\* at all (ok = FALSE: index or slice bounds out of range, a run-time panic).
DecPanic == [val |-> Nil, step |-> 0, ok |-> FALSE]

fromIntBinary(bs, w, kind) ==
    IF Len(bs) < w THEN DecPanic
    ELSE [val |-> GoNum(kind, SignedBE(bs, w)), step |-> w, ok |-> TRUE]


\* int16 arithmetic: the value of an int16 expression, wrapped to 16 bits.
WrapInt16(v) == ((v + 32768) % 65536) - 32768

\* toStringBinary: a 2-byte header toInt16Binary(len(body)) and the body; a
\* value that is no string is encoded as the empty string.
toStringBinary(x, b) ==
    LET body == IF x.t = "string" THEN x.s ELSE <<>>
    IN toIntBinary(GoNum("int", Len(body)), 2, b) \o body

\* fromStringBinary: l is read as an int16 and limit := 2 + l is int16
\* arithmetic; b[:2] and b[2:limit] panic when out of range (a limit past the
\* length is taken as past the capacity).
fromStringBinary(bs) ==
    IF Len(bs) < 2 THEN DecPanic
    ELSE LET l == SignedBE(bs, 2)
             limit == WrapInt16(2 + l)
         IN IF limit < 2 \/ limit > Len(bs) THEN DecPanic
            ELSE [val |-> GoStr(SubSeq(bs, 3, limit)), step |-> limit, ok |-> TRUE]

\* -- encoding/json, for the values this model holds: null, strings of ASCII
\* bytes that need no \u escape, and integral numbers.

Quote == 34
Backslash == 92
JsonNull == <<110, 117, 108, 108>>

RECURSIVE EscapeFrom(_, _)
EscapeFrom(str, i) ==
    IF i > Len(str) THEN <<>>
    ELSE (IF str[i] \in {Quote, Backslash} THEN <<Backslash, str[i]>> ELSE <<str[i]>>)
            \o EscapeFrom(str, i + 1)

\* The string body as json.Marshal writes it: " and \ get a backslash.
Escape(str) ==
    IF \A i \in 1..Len(str) : str[i] \notin {Quote, Backslash} THEN str
    ELSE EscapeFrom(str, 1)

RECURSIVE Digits(_)
\* The decimal digits of n >= 0, as ASCII bytes.
Digits(n) == IF n < 10 THEN <<48 + n>> ELSE Digits(n \div 10) \o <<48 + (n % 10)>>

\* json.Marshal(v)
JsonMarshal(x) ==
    CASE x.t = "nil" -> JsonNull
      [] x.t = "string" -> <<Quote>> \o Escape(x.s) \o <<Quote>>
      [] OTHER -> IF x.n < 0 THEN <<45>> \o Digits(0 - x.n) ELSE Digits(x.n)

RECURSIVE UnescapeFrom(_, _)
UnescapeFrom(body, i) ==
    IF i > Len(body) THEN <<>>
    ELSE IF body[i] = Backslash /\ i < Len(body)
         THEN <<body[i + 1]>> \o UnescapeFrom(body, i + 2)
         ELSE <<body[i]>> \o UnescapeFrom(body, i + 1)

Unescape(body) ==
    IF \A i \in 1..Len(body) : body[i] # Backslash THEN body
    ELSE UnescapeFrom(body, 1)

RECURSIVE Number(_, _, _)
Number(bs, i, acc) ==
    IF i > Len(bs) THEN acc ELSE Number(bs, i + 1, acc * 10 + (bs[i] - 48))

IsDigits(bs) == Len(bs) > 0 /\ \A i \in 1..Len(bs) : bs[i] \in 48..57

\* json.Unmarshal(data, &anyValue) with its error dropped: a number comes
\* back as a float64, and anyValue stays nil when the data does not parse.
JsonUnmarshal(bs) ==
    IF bs = JsonNull THEN Nil
    ELSE IF Len(bs) >= 2 /\ bs[1] = Quote /\ bs[Len(bs)] = Quote
         THEN GoStr(Unescape(SubSeq(bs, 2, Len(bs) - 1)))
    ELSE IF IsDigits(bs) THEN GoNum("float64", Number(bs, 1, 0))
    ELSE IF Len(bs) >= 2 /\ bs[1] = 45 /\ IsDigits(Tail(bs))
         THEN GoNum("float64", 0 - Number(Tail(bs), 1, 0))
    ELSE Nil

\* toJsonBinary: a 2-byte header toInt16Binary(len(body)) and the marshalled
\* body.
toJsonBinary(x, b) ==
    toIntBinary(GoNum("int", Len(JsonMarshal(x))), 2, b) \o JsonMarshal(x)

\* fromJsonBinary: the length handling of fromStringBinary, then Unmarshal.
fromJsonBinary(bs) ==
    IF Len(bs) < 2 THEN DecPanic
    ELSE LET l == SignedBE(bs, 2)
             limit == WrapInt16(2 + l)
         IN IF limit < 2 \/ limit > Len(bs) THEN DecPanic
            ELSE [val |-> JsonUnmarshal(SubSeq(bs, 3, limit)), step |-> limit, ok |-> TRUE]

\* A chooseEncoder that also accepts "float".
KindsWithFloat == {"int8", "int16", "int32", "int64", "string", "json", "float"}

\* The kinds chooseEncoder accepts; any other kind is an error.
SupportedKinds == {"int8", "int16", "int32", "int64", "string", "json"}

\* field.encode / field.decode as chosen by chooseEncoder(kind).
Encode(kind, x, b) ==
    CASE kind \in IntKinds -> toIntBinary(x, Width(kind), b)
      [] kind = "string" -> toStringBinary(x, b)
      [] kind = "json" -> toJsonBinary(x, b)

Decode(kind, bs) ==
    CASE kind \in IntKinds -> fromIntBinary(bs, Width(kind), kind)
      [] kind = "string" -> fromStringBinary(bs)
      [] kind = "json" -> fromJsonBinary(bs)

\* bytes.Compare(a, b) < 0: byte-lexicographic order, a proper prefix first.
BytesLess(a, b) ==
    \E i \in 1..(Len(a) + 1) :
        /\ i <= Len(b)
        /\ \A j \in 1..(i - 1) : a[j] = b[j]
        /\ (i = Len(a) + 1 \/ a[i] < b[i])

-----------------------------------------------------------------------------
(* Codec runs: encode two values of one integer kind, decode the first.    *)

\* How far from each edge (minimum, zero, maximum) the sampled integers reach.
EdgeSpan == 1

\* Range of a kind.  TLC's integers are 32-bit: int64 values are sampled from
\* the 32-bit range, where the upper four encoded bytes are sign extension.
MinOf(kind) ==
    CASE kind = "int8" -> -128
      [] kind = "int16" -> -32768
      [] kind \in {"int32", "int64"} -> -2147483647 - 1

MaxOf(kind) ==
    CASE kind = "int8" -> 127
      [] kind = "int16" -> 32767
      [] kind \in {"int32", "int64"} -> 2147483647

SampleInts(kind) ==
    {MinOf(kind) + d : d \in 0..EdgeSpan}
        \cup ((0 - EdgeSpan)..EdgeSpan)
        \cup {MaxOf(kind) - d : d \in 0..EdgeSpan}

\* The Go types that can hold the integer n (float32 holds 24 bits exactly).
HoldingTypes(n) ==
    {"int", "int64", "float64"}
        \cup {k \in {"int8", "int16", "int32"} : MinOf(k) <= n /\ n <= MaxOf(k)}
        \cup (IF -16777216 <= n /\ n <= 16777216 THEN {"float32"} ELSE {})

CodecInputs(kind) ==
    UNION {{GoNum(t, n) : t \in HoldingTypes(n)} : n \in SampleInts(kind)}

Builds == {"wrap", "saturate"}

Tails == {<<>>, <<0>>, <<255, 1>>}

CodecInit ==
    /\ build \in Builds
    /\ cKind \in IntKinds
    /\ cA \in CodecInputs(cKind)
    /\ cB \in CodecInputs(cKind)
    /\ cTail \in Tails
    /\ cEncA = <<>>
    /\ cEncB = <<>>
    /\ cDec = DecPanic
    /\ cPc = "start"

CodecEncode ==
    /\ cPc = "start"
    /\ cEncA' = Encode(cKind, cA, build)
    /\ cEncB' = Encode(cKind, cB, build)
    /\ cPc' = "encoded"
    /\ UNCHANGED <<build, cKind, cA, cB, cTail, cDec>>

CodecDecode ==
    /\ cPc = "encoded"
    /\ cDec' = Decode(cKind, cEncA \o cTail)
    /\ cPc' = "decoded"
    /\ UNCHANGED <<build, cKind, cA, cB, cTail, cEncA, cEncB>>

-----------------------------------------------------------------------------
(* Schema and store construction: Open, open, the options, lockSchema.     *)

\* An Opt, as the data its closure carries.
WithStorage(name) == [op |-> "storage", name |-> name, kind |-> ""]
WithDir(dir) == [op |-> "dir", name |-> dir, kind |-> ""]
WithKey(name, kind) == [op |-> "key", name |-> name, kind |-> kind]
WithValue(name, kind) == [op |-> "value", name |-> name, kind |-> kind]

\* &dbWrapper{}: db tells whether the Storage handle is set.
EmptyWrapper ==
    [store |-> "", dir |-> "", keys |-> <<>>, values |-> <<>>, masks |-> 0, db |-> FALSE]

Field(name, kind) == [name |-> name, kind |-> kind]

\* opt(w): the wrapper after the option, or an error from chooseEncoder.
ApplyOpt(w, o) ==
    CASE o.op = "storage" -> [err |-> FALSE, w |-> [w EXCEPT !.store = o.name]]
      [] o.op = "dir" -> [err |-> FALSE, w |-> [w EXCEPT !.dir = o.name]]
      [] o.op = "key" ->
            IF o.kind \notin SupportedKinds THEN [err |-> TRUE, w |-> w]
            ELSE [err |-> FALSE,
                  w |-> [w EXCEPT !.keys = Append(@, Field(o.name, o.kind))]]
      [] o.op = "value" ->
            IF o.kind \notin SupportedKinds THEN [err |-> TRUE, w |-> w]
            ELSE [err |-> FALSE,
                  w |-> [w EXCEPT !.values = Append(@, Field(o.name, o.kind))]]

RECURSIVE ApplyOpts(_, _, _)
\* for _, opt := range opts { if err := opt(w); err != nil { return } }
ApplyOpts(w, opts, i) ==
    IF i > Len(opts) THEN [err |-> FALSE, w |-> w]
    ELSE LET r == ApplyOpt(w, opts[i])
         IN IF r.err THEN r ELSE ApplyOpts(r.w, opts, i + 1)

\* A registry that also holds a builder named "rocks".
WithRocks == {"badger", "lotus", "rocks"}

\* The names under which the storage packages register a builder.
Registration == {"badger", "lotus"}

\* ceil(n / 8), and that width with 1 byte as its least.
CeilDiv8(n) == (n + 7) \div 8
CeilMaskWidth(n) == IF CeilDiv8(n) < 1 THEN 1 ELSE CeilDiv8(n)

\* w.masks = (len(w.values) / 8) + 1
MaskWidth(n) == (n \div 8) + 1

\* The descriptor lockSchema writes: fixedSchema{Store, Keys, Values}.
NoFile == [present |-> FALSE, store |-> "", keys |-> <<>>, values |-> <<>>]
Descriptor(w) ==
    [present |-> TRUE, store |-> w.store, keys |-> w.keys, values |-> w.values]

\* The options the caller gave, whatever the directory holds.
CallerOptions(d, dir) == oOpts

\* recoverSchema: the options rebuilt from the descriptor in dir.
recoverSchema(d, dir) ==
    <<WithStorage(d.store), WithDir(dir)>>
        \o [i \in 1..Len(d.keys) |-> WithKey(d.keys[i].name, d.keys[i].kind)]
        \o [i \in 1..Len(d.values) |-> WithValue(d.values[i].name, d.values[i].kind)]

\* The directory os.MkdirTemp creates: a new one, with no descriptor in it.
TmpDir == "tmp"

\* open(opts...): builderFails and writeFails are the environment's answers
\* to storageBuilder(dir) and os.WriteFile.  The result tells the error, the
\* wrapper, the descriptors afterwards and whether a backend handle was opened.
open(opts, fsys, builderFails, writeFails) ==
    LET r == ApplyOpts(EmptyWrapper, opts, 1)
        w1 == IF r.w.dir = "" THEN [r.w EXCEPT !.dir = TmpDir] ELSE r.w
        w2 == [w1 EXCEPT !.db = TRUE, !.masks = MaskWidth(Len(w1.values))]
    IN  IF r.err THEN
            [err |-> "fail to handle option", w |-> EmptyWrapper, fs |-> fsys, opened |-> FALSE]
        ELSE IF w1.store \notin Registration THEN
            [err |-> "no such storage", w |-> EmptyWrapper, fs |-> fsys, opened |-> FALSE]
        ELSE IF builderFails THEN
            [err |-> "fail to open db", w |-> EmptyWrapper, fs |-> fsys, opened |-> FALSE]
        ELSE IF writeFails THEN
            [err |-> "fail to lock schema", w |-> EmptyWrapper, fs |-> fsys, opened |-> TRUE]
        ELSE
            [err |-> "", w |-> w2,
             fs |-> [fsys EXCEPT ![w2.dir] = Descriptor(w2)], opened |-> TRUE]

\* Open(opts...): a first pass over the caller's options finds the directory;
\* a descriptor found there replaces the caller's options.
Open(opts, fsys, builderFails, writeFails) ==
    LET r == ApplyOpts(EmptyWrapper, opts, 1)
    IN  IF r.err THEN
            [err |-> "fail to handle option", w |-> EmptyWrapper, fs |-> fsys, opened |-> FALSE]
        ELSE IF r.w.dir # "" /\ fsys[r.w.dir].present THEN
            open(recoverSchema(fsys[r.w.dir], r.w.dir), fsys, builderFails, writeFails)
        ELSE open(opts, fsys, builderFails, writeFails)

\* -- Open, called by a client with options drawn from a bounded family.

\* Most key fields / value fields the sampled option lists declare.
MaxKeyOpts == 2
MaxValueOpts == 8

Dirs == {"d1", TmpDir}

\* Option lists as main's storageOpts builds them: storage, directory, keys,
\* values; an empty name or dir leaves the option out.
MkOpts(sname, dir, nk, nv, kind) ==
    (IF sname = "" THEN <<>> ELSE <<WithStorage(sname)>>)
        \o (IF dir = "" THEN <<>> ELSE <<WithDir(dir)>>)
        \o [i \in 1..nk |-> WithKey("k" \o ToString(i), kind)]
        \o [i \in 1..nv |-> WithValue("v" \o ToString(i), kind)]

OptionLists ==
    {MkOpts(sname, dir, nk, nv, kind) :
        sname \in {"", "badger", "lotus", "rocks"}, dir \in {"", "d1"},
        nk \in 0..MaxKeyOpts, nv \in 0..MaxValueOpts,
        kind \in {"int8", "string", "float"}}

\* A descriptor an earlier run may have left in directory d1.
PriorDescriptor ==
    [present |-> TRUE, store |-> "badger",
     keys |-> <<Field("k", "int32")>>, values |-> <<Field("x", "int8")>>]

\* Another one: the lotus backend, two keys, eight value fields.
PriorWide ==
    [present |-> TRUE, store |-> "lotus",
     keys |-> <<Field("a", "string"), Field("b", "int64")>>,
     values |-> [i \in 1..8 |-> Field("w" \o ToString(i), "int16")]]

NoResult == [err |-> "", w |-> EmptyWrapper]

OpenInit ==
    /\ oOpts \in OptionLists
    /\ fs \in {[d \in Dirs |-> IF d = "d1" THEN prior ELSE NoFile] :
                   prior \in {NoFile, PriorDescriptor, PriorWide}}
    /\ oRes = NoResult
    /\ handles = 0
    /\ oPc = "start"

OpenCall ==
    /\ oPc = "start"
    /\ \E builderFails \in BOOLEAN, writeFails \in BOOLEAN :
        LET r == Open(oOpts, fs, builderFails, writeFails)
        IN  /\ oRes' = [err |-> r.err, w |-> r.w]
            /\ fs' = r.fs
            /\ handles' = handles + (IF r.opened THEN 1 ELSE 0)
            /\ oPc' = IF r.err = "" THEN "opened" ELSE "failed"
    /\ UNCHANGED oOpts

\* dbWrapper.Close: db.db.Close()
CloseCall ==
    /\ oPc = "opened"
    /\ handles' = handles - 1
    /\ oPc' = "closed"
    /\ UNCHANGED <<oOpts, fs, oRes>>

\* dbWrapper.Destroy, run after Close as main's deferred calls do:
\* os.RemoveAll(db.dir) unless dir is empty.
DestroyCall ==
    /\ oPc = "closed"
    /\ fs' = IF oRes.w.dir = "" THEN fs ELSE [fs EXCEPT ![oRes.w.dir] = NoFile]
    /\ oPc' = "destroyed"
    /\ UNCHANGED <<oOpts, oRes, handles>>

-----------------------------------------------------------------------------
(* Record writer and merger decoding.                                      *)

\* Go map operations on a map[string]any.
EmptyMap == [name \in {} |-> Nil]
Lookup(rec, name) == IF name \in DOMAIN rec THEN rec[name] ELSE Nil
\* A delete that leaves the field in the map.
KeepField(rec, name) == rec
Delete(rec, name) == [x \in (DOMAIN rec) \ {name} |-> rec[x]]
MapPut(rec, name, v) == [x \in (DOMAIN rec) \cup {name} |-> IF x = name THEN v ELSE rec[x]]

RECURSIVE KeyLoop(_, _, _, _, _)
\* for _, f := range dbW.keys { encode record[f.name]; append; delete }
KeyLoop(keys, rec, i, payload, b) ==
    IF i > Len(keys) THEN [key |-> payload, rec |-> rec]
    ELSE KeyLoop(keys, Delete(rec, keys[i].name), i + 1,
                 payload \o Encode(keys[i].kind, Lookup(rec, keys[i].name), b), b)

\* 1 << (7 - (i % 8)) for the 0-based field index i.
MaskBit(i) == 2 ^ (7 - (i % 8))

BitIsSet(byte, bit) == (byte \div bit) % 2 = 1

\* head[i/8] |= bit
OrBit(head, i) ==
    [head EXCEPT ![(i \div 8) + 1] =
        IF BitIsSet(@, MaskBit(i)) THEN @ ELSE @ + MaskBit(i)]

RECURSIVE ValueLoop(_, _, _, _, _, _)
\* for i, f := range dbW.values: a field absent from the record or nil sets
\* its bit and adds no bytes; any other value is encoded and appended.
ValueLoop(values, rec, i, head, body, b) ==
    IF i >= Len(values) THEN head \o body
    ELSE LET f == values[i + 1]
         IN IF f.name \notin DOMAIN rec \/ rec[f.name] = Nil
            THEN ValueLoop(values, rec, i + 1, OrBit(head, i), body, b)
            ELSE ValueLoop(values, rec, i + 1, head,
                           body \o Encode(f.kind, rec[f.name], b), b)

\* dbWrapper.extractKeysAndValues: the key payload, the value payload (nil,
\* here empty, without value fields) and the record as the call leaves it.
extractKeysAndValues(db, record, b) ==
    LET k == KeyLoop(db.keys, record, 1, <<>>, b)
    IN [key |-> k.key,
        value |-> IF Len(db.values) > 0
                  THEN ValueLoop(db.values, k.rec, 0, [j \in 1..db.masks |-> 0], <<>>, b)
                  ELSE <<>>,
        rec |-> k.rec]

\* A Merger as NewIterator makes it, with its partial keys and aggregations.
MkMerger(db, pks, ags) ==
    [masks |-> db.masks, partialKeys |-> pks, allValues |-> db.values, aggs |-> ags]

\* Merger.NoValue
NoValue(m) == Len(m.allValues) = 0

MapPanic == [ok |-> FALSE, m |-> EmptyMap]

RECURSIVE RestoreValueLoop(_, _, _, _, _, _)
RestoreValueLoop(values, head, body, i, offset, acc) ==
    IF i >= Len(values) THEN [ok |-> TRUE, m |-> acc]
    ELSE IF BitIsSet(head[(i \div 8) + 1], MaskBit(i))
    THEN RestoreValueLoop(values, head, body, i + 1, offset, acc)
    ELSE LET d == Decode(values[i + 1].kind, SubSeq(body, offset + 1, Len(body)))
         IN IF ~d.ok THEN MapPanic
            ELSE RestoreValueLoop(values, head, body, i + 1, offset + d.step,
                                  MapPut(acc, values[i + 1].name, d.val))

\* Merger.RestoreValue: valueBytes[:masks] is the head, the rest the body; a
\* slice or index out of range is a panic (ok = FALSE).
RestoreValue(m, valueBytes) ==
    IF Len(valueBytes) < m.masks THEN MapPanic
    ELSE RestoreValueLoop(m.allValues, SubSeq(valueBytes, 1, m.masks),
                          SubSeq(valueBytes, m.masks + 1, Len(valueBytes)), 0, 0, EmptyMap)

KeyPanic == [ok |-> FALSE, bytes |-> <<>>, m |-> EmptyMap]

RECURSIVE RestoreKeyLoop(_, _, _, _, _)
RestoreKeyLoop(pks, keyBytes, i, keyOffset, acc) ==
    IF i > Len(pks) THEN [ok |-> TRUE, bytes |-> SubSeq(keyBytes, 1, keyOffset), m |-> acc]
    ELSE IF keyOffset > Len(keyBytes) THEN KeyPanic
    ELSE LET d == Decode(pks[i].kind, SubSeq(keyBytes, keyOffset + 1, Len(keyBytes)))
         IN IF ~d.ok THEN KeyPanic
            ELSE RestoreKeyLoop(pks, keyBytes, i + 1, keyOffset + d.step,
                                MapPut(acc, pks[i].name, d.val))

\* Merger.RestoreKey: the bytes the partial keys cover and their decoded map.
RestoreKey(m, keyBytes) == RestoreKeyLoop(m.partialKeys, keyBytes, 1, 0, EmptyMap)

\* -- Writer runs: one record through extractKeysAndValues, then RestoreValue.

\* Most value fields of the sampled schemas, and most of them a sampled
\* record leaves out or sets to null.
MaxWriterValues == 9
MaxNotSet == 2

\* The sampled schemas: key k:int8, for an odd n then the key s:string and for
\* an n divisible by 3 then the key j:json, and n value fields v1..vn whose
\* kinds cycle.
KindCycle == <<"int8", "string", "int16", "int64", "int32">>
WriterKind(i) == KindCycle[((i - 1) % Len(KindCycle)) + 1]
WriterName(i) == "v" \o ToString(i)

WriterKeys(n) ==
    <<WithKey("k", "int8")>>
        \o (IF n % 2 = 1 THEN <<WithKey("s", "string")>> ELSE <<>>)
        \o (IF n % 3 = 0 THEN <<WithKey("j", "json")>> ELSE <<>>)

WriterSchema(n) ==
    open(<<WithStorage("badger")>> \o WriterKeys(n)
            \o [i \in 1..n |-> WithValue(WriterName(i), WriterKind(i))],
         [d \in Dirs |-> NoFile], FALSE, FALSE).w

\* The length at which the 2-byte length header's top bit is set.
LongLen == 32768

\* The value a sampled record gives a field of the kind, by variant.
ValueFor(kind, variant) ==
    CASE variant = "small" ->
            IF kind = "string" THEN GoStr(<<97>>) ELSE GoNum("int", 3)
      [] variant = "json" ->
            IF kind = "string" THEN GoStr(<<>>) ELSE GoNum("float64", -2)
      [] variant = "edge" ->
            IF kind = "string" THEN GoStr(<<104, 105>>) ELSE GoNum(kind, MinOf(kind))
      [] variant = "long" ->
            IF kind = "string" THEN GoStr([i \in 1..LongLen |-> 120]) ELSE GoNum("float64", 7)

\* Per field: left out of the record, present as null, or present with a value.
FieldStates(n) ==
    {st \in [1..n -> {"omit", "null", "val"}] :
        Cardinality({i \in 1..n : st[i] # "val"}) <= MaxNotSet}

\* The record: the key field k (not in the "json" variant), the value fields
\* as st says, in the "edge" variant a field s and a field the schema does not
\* know, and in the "small" variant a field j.
WriterRecord(n, st, variant) ==
    LET names == {WriterName(i) : i \in {j \in 1..n : st[j] # "omit"}}
                    \cup (IF variant = "json" THEN {} ELSE {"k"})
                    \cup (IF variant = "edge" THEN {"zz", "s"} ELSE {})
                    \cup (IF variant = "small" THEN {"j"} ELSE {})
        idx(name) == CHOOSE i \in 1..n : WriterName(i) = name
    IN [name \in names |->
            IF name = "k" THEN GoNum("float64", 5)
            ELSE IF name = "zz" THEN GoStr(<<122>>)
            ELSE IF name = "s" THEN GoStr(<<104, 105>>)
            ELSE IF name = "j" THEN GoStr(<<106>>)
            ELSE IF st[idx(name)] = "null" THEN Nil
            ELSE ValueFor(WriterKind(idx(name)), variant)]

WriterRecords(n) ==
    {WriterRecord(n, st, variant) :
        st \in FieldStates(n),
        variant \in {"small", "json", "edge"} \cup (IF n = 2 THEN {"long"} ELSE {})}

WriterInit ==
    /\ build \in Builds
    /\ \E n \in 0..MaxWriterValues :
        /\ wDb = WriterSchema(n)
        /\ wRecord \in WriterRecords(n)
    /\ wOut = [key |-> <<>>, value |-> <<>>, rec |-> EmptyMap]
    /\ wDecoded = MapPanic
    /\ wPc = "start"

WriterExtract ==
    /\ wPc = "start"
    /\ wOut' = extractKeysAndValues(wDb, wRecord, build)
    /\ wPc' = "written"
    /\ UNCHANGED <<build, wDb, wRecord, wDecoded>>

\* The merger decodes the stored value, as the backends' Iterate does unless
\* the schema has no value field.
WriterRestore ==
    /\ wPc = "written"
    /\ ~NoValue(MkMerger(wDb, <<>>, <<>>))
    /\ wDecoded' = RestoreValue(MkMerger(wDb, <<>>, <<>>), wOut.value)
    /\ wPc' = "restored"
    /\ UNCHANGED <<build, wDb, wRecord, wOut>>

-----------------------------------------------------------------------------
(* Storage backends: the inserters of badger and lotus.                    *)

\* An empty set of entries; a fresh transaction or batch.
NoEntries == [k \in {} |-> <<>>]
NewTxn == [writes |-> NoEntries, count |-> 0]

\* txn.Set / batch.Put that succeeds: the write is pending.
Put(t, k, v) == [writes |-> (k :> v) @@ t.writes, count |-> t.count + 1]

\* Commit: the pending writes reach the store, or, failing, none does.
Commit(st, t, fails) == IF fails THEN st ELSE t.writes @@ st

\* Entries one badger transaction accepts before Set answers ErrTxnTooBig.
MaxTxnEntries == 2

\* What the backend may answer to the first Set / Put of an Insert.
FirstAnswers(backend, t, canFail) ==
    (IF backend = "badger" /\ t.count >= MaxTxnEntries THEN {"toobig"} ELSE {"ok"})
        \cup (IF canFail THEN {"err"} ELSE {})

\* Whether the first answer makes Insert roll over: badger on ErrTxnTooBig
\* only, lotus on any error.
RollsOver(backend, first) ==
    IF backend = "badger" THEN first = "toobig" ELSE first # "ok"

\* What Insert returns after the retry: badger drops the retry's error,
\* lotus returns it.
RetryError(backend, retryFails) ==
    IF backend = "badger" THEN FALSE ELSE retryFails

\* badgerDbTxn.Insert / lotusDbTxn.Insert under the backend's answers: first
\* (to Set/Put), commitFails and retryFails (to the rollover's Commit and
\* second Set/Put).  Gives the store, the transaction, the error returned,
\* whether a failure was left unrepaired and whether a rollover happened.
Insert(backend, st, t, k, v, first, commitFails, retryFails) ==
    IF first = "ok" THEN
        [store |-> st, txn |-> Put(t, k, v), err |-> FALSE, failed |-> FALSE, rolled |-> FALSE]
    ELSE IF RollsOver(backend, first) THEN
        [store |-> Commit(st, t, commitFails),
         txn |-> IF retryFails THEN NewTxn ELSE Put(NewTxn, k, v),
         err |-> RetryError(backend, retryFails),
         failed |-> commitFails \/ retryFails,
         rolled |-> TRUE]
    ELSE
        [store |-> st, txn |-> t, err |-> FALSE, failed |-> TRUE, rolled |-> FALSE]

-----------------------------------------------------------------------------
(* Ingestion: the reader feeds the channel, Recv writes through an inserter *)

\* Records the source holds at most, the channel's capacity as the caller
\* of Recv made it, and the backend failures the environment may inject.
MaxRecords == 3
ChanCap == 1
MaxFaults == 2

\* The store of the pipeline: keys k:int8, j:int8 and value x:int8, opened
\* on the named backend in a new directory.
PipeOpts(backend) ==
    <<WithStorage(backend), WithKey("k", "int8"), WithKey("j", "int8"),
      WithValue("x", "int8")>>
PipeDb(backend) == Open(PipeOpts(backend), [d \in Dirs |-> NoFile], FALSE, FALSE).w

\* The records the source may hold: k and x as decoded JSON numbers or Go
\* ints, j present or not, x null or a number.
RecordPool ==
    {[name \in {"k", "x"} \cup js |->
        CASE name = "k" -> kv
          [] name = "j" -> GoNum("int", 1)
          [] name = "x" -> xv] :
        kv \in {GoNum("int", -1), GoNum("float64", 1)},
        js \in {{}, {"j"}},
        xv \in {Nil, GoNum("float64", 3)}}

IngestInit ==
    /\ build = "wrap"
    /\ gDb \in {PipeDb(backend) : backend \in Registration}
    /\ store = NoEntries
    /\ txn = NewTxn
    /\ ch = <<>>
    /\ chClosed = FALSE
    /\ nRead = 0
    /\ recvPc = "idle"
    /\ recvErr = FALSE
    /\ lww = NoEntries
    /\ failed = FALSE
    /\ rolled = 0
    /\ faultsLeft = MaxFaults
    /\ srcLen \in 0..MaxRecords
    /\ run = 1
    /\ sent = <<>>
    /\ inserted = <<>>
    /\ committed = FALSE
    /\ mainPc = "recv"

\* readStdin, one line: the record gets the sequence number and is sent; the
\* send waits while the channel is full.
ReadFrom(source) ==
    /\ ~chClosed
    /\ nRead < srcLen
    /\ Len(ch) < ChanCap
    /\ \E rec \in source :
        LET record == MapPut(rec, "_i_", GoNum("int32", nRead))
        IN  /\ ch' = Append(ch, record)
            /\ sent' = Append(sent, record)
    /\ nRead' = nRead + 1
    /\ UNCHANGED <<build, gDb, store, txn, chClosed, recvPc, recvErr, lww, failed,
                   rolled, faultsLeft, srcLen, run, inserted, committed, mainPc>>

ReadLine == ReadFrom(RecordPool)

\* readStdin returns, at the end of the input or on a line that does not
\* parse (the source's last line, for the pipeline): the deferred close(ch).
ReadEnd ==
    /\ ~chClosed
    /\ nRead = srcLen
    /\ chClosed' = TRUE
    /\ UNCHANGED <<build, gDb, store, txn, ch, nRead, recvPc, recvErr, lww, failed,
                   rolled, faultsLeft, srcLen, run, sent, inserted, committed, mainPc>>

\* Recv: ins := db.db.NewInserter()
RecvBegin ==
    /\ recvPc = "idle"
    /\ txn' = NewTxn
    /\ recvPc' = "running"
    /\ UNCHANGED <<build, gDb, store, ch, chClosed, nRead, recvErr, lww, failed,
                   rolled, faultsLeft, srcLen, run, sent, inserted, committed, mainPc>>

BoolNum(b) == IF b THEN 1 ELSE 0

\* Recv, one turn of the loop: a record leaves the channel and is inserted.
\* An error from Insert ends Recv; the deferred Commit then commits the batch
\* the rollover has just emptied.
RecvRecord ==
    /\ recvPc = "running"
    /\ ch # <<>>
    /\ LET kv == extractKeysAndValues(gDb, Head(ch), build)
       IN \E first \in FirstAnswers(gDb.store, txn, faultsLeft > 0),
             commitFails \in BOOLEAN, retryFails \in BOOLEAN :
            LET used == BoolNum(first = "err") + BoolNum(commitFails) + BoolNum(retryFails)
                r == Insert(gDb.store, store, txn, kv.key, kv.value,
                            first, commitFails, retryFails)
            IN  /\ used <= faultsLeft
                /\ (commitFails \/ retryFails) => RollsOver(gDb.store, first)
                /\ store' = r.store
                /\ txn' = r.txn
                /\ lww' = (kv.key :> kv.value) @@ lww
                /\ failed' = (failed \/ r.failed)
                /\ rolled' = rolled + BoolNum(r.rolled)
                /\ faultsLeft' = faultsLeft - used
                /\ recvErr' = r.err
                /\ recvPc' = IF r.err THEN "returned" ELSE "running"
    /\ ch' = Tail(ch)
    /\ inserted' = Append(inserted, Head(ch))
    /\ UNCHANGED <<build, gDb, chClosed, nRead, srcLen, run, sent, committed, mainPc>>

\* Recv, the channel closed and drained: return nil; the deferred
\* ins.Commit() runs and its result is dropped.
RecvEnd ==
    /\ recvPc = "running"
    /\ ch = <<>>
    /\ chClosed
    /\ \E commitFails \in BOOLEAN :
        /\ commitFails => faultsLeft > 0
        /\ store' = Commit(store, txn, commitFails)
        /\ failed' = (failed \/ commitFails)
        /\ faultsLeft' = faultsLeft - BoolNum(commitFails)
        /\ committed' = ~commitFails
    /\ txn' = NewTxn
    /\ recvPc' = "returned"
    /\ recvErr' = FALSE
    /\ UNCHANGED <<build, gDb, ch, chClosed, nRead, lww, rolled, srcLen, run, sent, inserted,
                   mainPc>>

\* main after Recv: an error makes it return; otherwise it builds the
\* iterator and calls Iter, which emits the merged records.
MainAfterRecv ==
    /\ mainPc = "recv"
    /\ recvPc = "returned"
    /\ mainPc' = IF recvErr THEN "exit" ELSE "iter"
    /\ UNCHANGED <<build, gDb, store, txn, ch, chClosed, nRead, recvPc, recvErr, lww, failed,
                   rolled, faultsLeft, srcLen, run, sent, inserted, committed>>

\* -- The command-line program, run more than once into one directory.

\* Lines one run reads at most, and runs into the directory.
MaxCliRecords == 2
MaxRuns == 2

\* storageOpts for the arguments -s backend -d d1 -k k:int8 -v x:int8: the
\* default storage first, the arguments in order, the key _i_ last.
storageOpts(backend) ==
    <<WithStorage("badger"), WithStorage(backend), WithDir("d1"),
      WithKey("k", "int8"), WithValue("x", "int8"), WithKey("_i_", "int32")>>

\* The lines of the input, as json.Unmarshal decodes them.
CliRecords ==
    {[name \in {"k", "x"} |-> IF name = "k" THEN kv ELSE GoNum("float64", 3)] :
        kv \in {GoNum("float64", 1), GoNum("float64", 2)}}

\* main's first run: Open on the empty directory, a new channel, the reader
\* started; the backend answers without failures.
CliInit ==
    /\ build = "wrap"
    /\ gDb \in {Open(storageOpts(backend), [d \in Dirs |-> NoFile], FALSE, FALSE).w :
                   backend \in Registration}
    /\ store = NoEntries
    /\ txn = NewTxn
    /\ ch = <<>>
    /\ chClosed = FALSE
    /\ nRead = 0
    /\ recvPc = "idle"
    /\ recvErr = FALSE
    /\ lww = NoEntries
    /\ failed = FALSE
    /\ rolled = 0
    /\ faultsLeft = 0
    /\ srcLen \in 0..MaxCliRecords
    /\ run = 1
    /\ sent = <<>>
    /\ inserted = <<>>
    /\ committed = FALSE
    /\ mainPc = "recv"

CliReadLine == ReadFrom(CliRecords)

\* main has returned (its deferred Close ran; BADMERGER_DEL is not set, so
\* the directory stays) and the program is started again with the same
\* arguments: Open finds the descriptor, the backend reopens the entries,
\* and a new readStdin starts with `var i int32`.
CliRunAgain ==
    /\ mainPc \in {"iter", "exit"}
    /\ run < MaxRuns
    /\ gDb' = Open(storageOpts(gDb.store),
                   [d \in Dirs |-> IF d = gDb.dir THEN Descriptor(gDb) ELSE NoFile],
                   FALSE, FALSE).w
    /\ run' = run + 1
    /\ ch' = <<>>
    /\ chClosed' = FALSE
    /\ nRead' = 0
    /\ srcLen' \in 0..MaxCliRecords
    /\ txn' = NewTxn
    /\ recvPc' = "idle"
    /\ recvErr' = FALSE
    /\ committed' = FALSE
    /\ mainPc' = "recv"
    /\ UNCHANGED <<build, store, lww, failed, rolled, faultsLeft, sent, inserted>>

-----------------------------------------------------------------------------
(* Aggregators and Merge.                                                  *)

\* The operator names chooseAggregator matches by prefix "name(".
KnownOps ==
    {"first", "first_not_null", "sum", "count", "count_distinct", "tally", "min", "max"}

\* No aggregator: the nil interface chooseAggregator returns otherwise.
NilAgg == [fn |-> "", arg |-> ""]

\* chooseAggregator for an operation written fn(arg).
chooseAggregator(fn, arg) == IF fn \in KnownOps THEN [fn |-> fn, arg |-> arg] ELSE NilAgg

\* A type switch with a single case.
OnlyInt64 == {"int64"}

\* The Go types the numeric aggregators' type switches accept.
AggIntTypes == {"int8", "int16", "int32", "int64", "int"}

\* The numbers of field name over the collection, in order.
RECURSIVE IntsOf(_, _, _)
IntsOf(coll, name, i) ==
    IF i > Len(coll) THEN <<>>
    ELSE (IF name \in DOMAIN coll[i] /\ coll[i][name].t \in AggIntTypes
          THEN <<coll[i][name].n>> ELSE <<>>) \o IntsOf(coll, name, i + 1)

RECURSIVE SumSeq(_)
SumSeq(q) == IF q = <<>> THEN 0 ELSE Head(q) + SumSeq(Tail(q))

\* The first number, whatever follows it.
HeadOf(q) == q[1]

RECURSIVE MinSeq(_)
MinSeq(q) ==
    IF Len(q) = 1 THEN q[1]
    ELSE LET m == MinSeq(Tail(q)) IN IF m < Head(q) THEN m ELSE Head(q)

RECURSIVE MaxSeq(_)
MaxSeq(q) ==
    IF Len(q) = 1 THEN q[1]
    ELSE LET m == MaxSeq(Tail(q)) IN IF m > Head(q) THEN m ELSE Head(q)

RECURSIVE FirstPresent(_, _, _)
\* The first occurrence of the field, null or not.
FirstPresent(coll, name, i) ==
    IF i > Len(coll) THEN Nil
    ELSE IF name \in DOMAIN coll[i] THEN coll[i][name]
    ELSE FirstPresent(coll, name, i + 1)

RECURSIVE FirstNotNull(_, _, _)
FirstNotNull(coll, name, i) ==
    IF i > Len(coll) THEN Nil
    ELSE IF name \in DOMAIN coll[i] /\ coll[i][name] # Nil THEN coll[i][name]
    ELSE FirstNotNull(coll, name, i + 1)

\* A decoded JSON array of numbers ([]interface{} holding float64).
GoSlice(q) == [t |-> "slice", n |-> 0, s |-> q]

\* An aggregator whose on method panicked.
AggPanic == [t |-> "panic", n |-> 0, s |-> <<>>]

\* Whether a value can be a key of Go's map[any]struct{}: a slice or a map
\* cannot, and using one as a key panics at run time.
Hashable(v) == v.t \notin {"slice", "map"}

RECURSIVE SeenLoop(_, _, _, _)
\* countDistinct.on: seen[val] = struct{}{} for every present non-nil val.
SeenLoop(coll, name, i, seen) ==
    IF i > Len(coll) THEN GoNum("int64", Cardinality(seen))
    ELSE IF name \in DOMAIN coll[i] /\ coll[i][name] # Nil
    THEN IF Hashable(coll[i][name])
         THEN SeenLoop(coll, name, i + 1, seen \cup {coll[i][name]})
         ELSE AggPanic
    ELSE SeenLoop(coll, name, i + 1, seen)

\* Decimal text of an integer, with its sign.
Itoa(n) == IF n < 0 THEN <<45>> \o Digits(0 - n) ELSE Digits(n)

RECURSIVE JoinSpace(_)
JoinSpace(q) ==
    IF q = <<>> THEN <<>>
    ELSE IF Len(q) = 1 THEN Itoa(q[1])
    ELSE Itoa(q[1]) \o <<32>> \o JoinSpace(Tail(q))

\* fmt.Sprintf("%v", val) for a non-nil val: a string is itself, a whole
\* number its decimal text, a slice its elements between brackets.
Sprintf(v) ==
    CASE v.t = "string" -> v.s
      [] v.t = "slice" -> <<91>> \o JoinSpace(v.s) \o <<93>>
      [] OTHER -> Itoa(v.n)

RECURSIVE TallyLoop(_, _, _, _)
\* tally.on: seen[valStr] = times + 1 for every present non-nil val.
TallyLoop(coll, name, i, seen) ==
    IF i > Len(coll) THEN seen
    ELSE IF name \in DOMAIN coll[i] /\ coll[i][name] # Nil
    THEN LET valStr == Sprintf(coll[i][name])
             times == IF valStr \in DOMAIN seen THEN seen[valStr] ELSE 0
         IN TallyLoop(coll, name, i + 1,
                      [k \in (DOMAIN seen) \cup {valStr} |->
                          IF k = valStr THEN times + 1 ELSE seen[k]])
    ELSE TallyLoop(coll, name, i + 1, seen)

\* The map[string]int64 tally.on returns: s maps each string to its count.
GoTally(seen) == [t |-> "map[string]int64", n |-> 0, s |-> seen]

\* aggregator.on(collection)
AggOn(a, coll) ==
    CASE a.fn = "first" -> IF Len(coll) = 0 THEN Nil ELSE Lookup(coll[1], a.arg)
      [] a.fn = "first_not_null" -> FirstNotNull(coll, a.arg, 1)
      [] a.fn = "min" ->
            IF IntsOf(coll, a.arg, 1) = <<>> THEN Nil
            ELSE GoNum("int64", MinSeq(IntsOf(coll, a.arg, 1)))
      [] a.fn = "max" ->
            IF IntsOf(coll, a.arg, 1) = <<>> THEN Nil
            ELSE GoNum("int64", MaxSeq(IntsOf(coll, a.arg, 1)))
      [] a.fn = "sum" -> GoNum("int64", SumSeq(IntsOf(coll, a.arg, 1)))
      [] a.fn = "count" ->
            GoNum("int64", Cardinality({i \in 1..Len(coll) : a.arg \in DOMAIN coll[i]}))
      [] a.fn = "count_distinct" -> SeenLoop(coll, a.arg, 1, {})
      [] a.fn = "tally" -> GoTally(TallyLoop(coll, a.arg, 1, <<>>))

\* A map variable: nil (var m map[string]any) or made.
NilMap == [isNil |-> TRUE, m |-> EmptyMap]
MadeMap(m) == [isNil |-> FALSE, m |-> m]

RECURSIVE MergeLoop(_, _, _, _)
\* for _, agg := range m.aggs { keyValue[agg.name] = agg.on(valueValues) }:
\* calling on of no aggregator and assigning into a nil map both panic.
MergeLoop(ags, keyValue, valueValues, i) ==
    IF i > Len(ags) THEN [ok |-> TRUE, why |-> "", m |-> keyValue.m, isNil |-> keyValue.isNil]
    ELSE IF ags[i].agg = NilAgg THEN
        [ok |-> FALSE, why |-> "nil aggregator", m |-> EmptyMap, isNil |-> TRUE]
    ELSE LET res == AggOn(ags[i].agg, valueValues)
         IN IF res.t = "panic" THEN
                [ok |-> FALSE, why |-> "hash of unhashable type", m |-> EmptyMap, isNil |-> TRUE]
            ELSE IF keyValue.isNil THEN
                [ok |-> FALSE, why |-> "assignment to entry in nil map",
                 m |-> EmptyMap, isNil |-> TRUE]
            ELSE MergeLoop(ags, MadeMap(MapPut(keyValue.m, ags[i].name, res)),
                           valueValues, i + 1)

\* Merger.Merge
Merge(m, keyValue, valueValues) == MergeLoop(m.aggs, keyValue, valueValues, 1)

-----------------------------------------------------------------------------
(* Merge iteration: NewIterator, WithPartialKey, WithAgg, Iter and the      *)
(* backends' Iterate.                                                       *)

\* Most entries of a sampled store, most partial keys and most aggregations
\* put on one iterator.
MaxEntries == 3
MaxPartial == 2
MaxAggs == 1

\* The pipeline's schema without its value field.
KeyOnlyDb(backend) ==
    Open(<<WithStorage(backend), WithKey("k", "int8"), WithKey("j", "int8")>>,
         [d \in Dirs |-> NoFile], FALSE, FALSE).w

IterDbs == {PipeDb(backend) : backend \in Registration}
               \cup {KeyOnlyDb(backend) : backend \in Registration}

\* The (key, value) pairs the record writer makes of the pool's records.
EntryPool(db) ==
    {<<extractKeysAndValues(db, r, "wrap").key, extractKeysAndValues(db, r, "wrap").value>> :
        r \in RecordPool}

\* The stores of at most MaxEntries entries over those pairs.
StoresOf(db) ==
    LET keyPool == {e[1] : e \in EntryPool(db)}
        valPool == {e[2] : e \in EntryPool(db)}
    IN {f \in UNION {[S -> valPool] : S \in {T \in SUBSET keyPool : Cardinality(T) <= MaxEntries}} :
            \A k \in DOMAIN f : <<k, f[k]>> \in EntryPool(db)}

\* The backend's iterator: position p (1-based) in ascending key-byte order.
KeyAt(st, p) ==
    CHOOSE k \in DOMAIN st : Cardinality({j \in DOMAIN st : BytesLess(j, k)}) = p - 1

\* Names and operations the caller may pass to WithPartialKey and WithAgg.
PartialNames == {"k", "j", "zz"}
AggCalls ==
    {<<"n", "count", "x">>, <<"s", "sum", "x">>, <<"f", "first", "x">>,
     <<"lo", "min", "x">>, <<"m", "median", "x">>}

IterInit ==
    /\ build = "wrap"
    /\ iDb \in IterDbs
    /\ iStore \in StoresOf(iDb)
    /\ partialKeys = <<>>
    /\ aggs = <<>>
    /\ itNil = FALSE
    /\ lastName = ""
    /\ iterPc = "idle"
    /\ iterErr = ""
    /\ pos = 0
    /\ lastKeyBytes = <<>>
    /\ lastKeyMap = NilMap
    /\ valueMaps = <<>>
    /\ emitted = <<>>
    /\ cbFailedAt = 0

\* A lookup that finds the first key field under any name.
FirstKeyAlways(db, name) == {1}

\* The key field of the schema with the name, as a set (empty: no such key).
KeysNamed(db, name) == {i \in 1..Len(db.keys) : db.keys[i].name = name}

\* IterWrapper.WithPartialKey: the first key field with the name is appended;
\* without one the result is nil, and a call on the nil iterator panics.
WithPartialKey ==
    /\ iterPc = "idle"
    /\ Len(partialKeys) < MaxPartial
    /\ \E name \in PartialNames :
        IF itNil THEN
            /\ iterPc' = "panic"
            /\ iterErr' = "nil iterator"
            /\ UNCHANGED <<partialKeys, itNil, lastName>>
        ELSE IF KeysNamed(iDb, name) = {} THEN
            /\ itNil' = TRUE
            /\ lastName' = name
            /\ UNCHANGED <<partialKeys, iterPc, iterErr>>
        ELSE
            /\ lastName' = name
            /\ partialKeys' = Append(partialKeys,
                    iDb.keys[CHOOSE i \in KeysNamed(iDb, name) :
                                \A j \in KeysNamed(iDb, name) : i <= j])
            /\ UNCHANGED <<itNil, iterPc, iterErr>>
    /\ UNCHANGED <<build, iDb, iStore, aggs, pos, lastKeyBytes, lastKeyMap, valueMaps,
                   emitted, cbFailedAt>>

\* IterWrapper.WithAgg
WithAgg ==
    /\ iterPc = "idle"
    /\ Len(aggs) < MaxAggs
    /\ \E c \in AggCalls :
        IF itNil THEN
            /\ iterPc' = "panic"
            /\ iterErr' = "nil iterator"
            /\ UNCHANGED aggs
        ELSE
            /\ aggs' = Append(aggs, [name |-> c[1], agg |-> chooseAggregator(c[2], c[3])])
            /\ UNCHANGED <<iterPc, iterErr>>
    /\ UNCHANGED <<build, iDb, iStore, partialKeys, itNil, lastName, pos, lastKeyBytes,
                   lastKeyMap, valueMaps, emitted, cbFailedAt>>

\* Iter: db.Iterate(m, fn) begins; Iterate's locals, the iterator rewound.
IterStart ==
    /\ iterPc = "idle"
    /\ IF itNil THEN
            /\ iterPc' = "panic"
            /\ iterErr' = "nil iterator"
            /\ pos' = pos
       ELSE
            /\ iterPc' = "running"
            /\ iterErr' = ""
            /\ pos' = 1
    /\ lastKeyBytes' = <<>>
    /\ lastKeyMap' = NilMap
    /\ valueMaps' = <<>>
    /\ UNCHANGED <<build, iDb, iStore, partialKeys, aggs, itNil, lastName, emitted, cbFailedAt>>

\* Iterate going on after a callback error; valueMaps kept at a new group.
NeverStops(cbErr) == FALSE
KeepValueMaps(vm) == vm

\* if err := fn(...); err != nil { return err }
StopsOn(cbErr) == cbErr

\* A reset that keeps the outgoing group's last record.
KeepLast(vm) == IF vm = <<>> THEN <<>> ELSE <<vm[Len(vm)]>>

\* valueMaps = valueMaps[:0] at a new group.
ResetValueMaps(vm) == <<>>

\* One call of the callback as the history records it: the group's key map,
\* the collection handed to the aggregators and the merged record.
Call(keyMap, coll, merged) == [key |-> keyMap, coll |-> coll, res |-> merged]

\* One turn of Iterate's loop on the entry (key, value).  cbFails: the
\* callback, if called, returns an error; readFails: item.Value returns one.
LoopTurn(m, key, value, lkb, lkm, vm, cbFails, readFails) ==
    LET rk == RestoreKey(m, key)
        differs == rk.ok /\ rk.bytes # lkb
        calls == differs /\ Len(lkb) > 0
        mg == Merge(m, lkm, vm)
        lkb2 == IF differs THEN rk.bytes ELSE lkb
        lkm2 == IF differs THEN MadeMap(rk.m) ELSE lkm
        vm2 == IF differs THEN ResetValueMaps(vm) ELSE vm
        rv == RestoreValue(m, value)
        stay == [pc |-> "running", err |-> "", lkb |-> lkb, lkm |-> lkm, vm |-> vm,
                 calls |-> FALSE, cbErr |-> FALSE, adv |-> 0]
    IN IF ~rk.ok THEN [stay EXCEPT !.pc = "panic", !.err = "index out of range"]
       ELSE IF calls /\ ~mg.ok THEN [stay EXCEPT !.pc = "panic", !.err = mg.why]
       ELSE IF calls /\ StopsOn(cbFails) THEN
            [stay EXCEPT !.pc = "error", !.err = "callback", !.calls = TRUE, !.cbErr = TRUE]
       ELSE IF NoValue(m) THEN
            [stay EXCEPT !.lkb = lkb2, !.lkm = lkm2, !.vm = vm2, !.calls = calls,
                         !.cbErr = calls /\ cbFails, !.adv = 1]
       ELSE IF readFails THEN
            [stay EXCEPT !.pc = "error", !.err = "value", !.lkb = lkb2, !.lkm = lkm2,
                         !.vm = vm2, !.calls = calls, !.cbErr = calls /\ cbFails]
       ELSE IF ~rv.ok THEN
            [stay EXCEPT !.pc = "panic", !.err = "index out of range", !.lkb = lkb2,
                         !.lkm = lkm2, !.vm = vm2, !.calls = calls,
                         !.cbErr = calls /\ cbFails]
       ELSE [stay EXCEPT !.lkb = lkb2, !.lkm = lkm2, !.vm = Append(vm2, rv.m),
                         !.calls = calls, !.cbErr = calls /\ cbFails, !.adv = 1]

\* Only badger's item.Value can fail; lotus hands the value over.
CanFailRead(db) == db.store = "badger"

\* Iterate, one turn of the loop (it.Valid()).
IterStep ==
    /\ iterPc = "running"
    /\ pos <= Cardinality(DOMAIN iStore)
    /\ \E cbFails \in BOOLEAN, readFails \in BOOLEAN :
        LET m == MkMerger(iDb, partialKeys, aggs)
            key == KeyAt(iStore, pos)
            o == LoopTurn(m, key, iStore[key], lastKeyBytes, lastKeyMap, valueMaps,
                          cbFails, readFails)
        IN  /\ readFails => CanFailRead(iDb)
            /\ iterPc' = o.pc
            /\ iterErr' = o.err
            /\ lastKeyBytes' = o.lkb
            /\ lastKeyMap' = o.lkm
            /\ valueMaps' = o.vm
            /\ pos' = pos + o.adv
            /\ emitted' = IF o.calls
                          THEN Append(emitted,
                                      Call(lastKeyMap, valueMaps,
                                           Merge(m, lastKeyMap, valueMaps)))
                          ELSE emitted
            /\ cbFailedAt' = IF o.cbErr /\ cbFailedAt = 0 THEN Len(emitted) + 1
                             ELSE cbFailedAt
    /\ UNCHANGED <<build, iDb, iStore, partialKeys, aggs, itNil, lastName>>

\* Iterate after the loop: the pending group is merged and handed over.
IterFinish ==
    /\ iterPc = "running"
    /\ pos > Cardinality(DOMAIN iStore)
    /\ LET m == MkMerger(iDb, partialKeys, aggs)
           mg == Merge(m, lastKeyMap, valueMaps)
       IN IF ~mg.ok THEN
               /\ iterPc' = "panic"
               /\ iterErr' = mg.why
               /\ UNCHANGED <<emitted, cbFailedAt>>
          ELSE \E cbFails \in BOOLEAN :
               /\ emitted' = Append(emitted, Call(lastKeyMap, valueMaps, mg))
               /\ iterPc' = IF StopsOn(cbFails) THEN "error" ELSE "done"
               /\ iterErr' = IF StopsOn(cbFails) THEN "callback" ELSE ""
               /\ cbFailedAt' = IF cbFails /\ cbFailedAt = 0 THEN Len(emitted) + 1
                                ELSE cbFailedAt
    /\ UNCHANGED <<build, iDb, iStore, partialKeys, aggs, itNil, lastName, pos, lastKeyBytes,
                   lastKeyMap, valueMaps>>

-----------------------------------------------------------------------------
(* Specifications.  Each runs one part of the program; the variables of    *)
(* the other parts keep the values below.                                  *)

CodecIdle ==
    /\ cKind = "int8" /\ cA = Nil /\ cB = Nil /\ cTail = <<>>
    /\ cEncA = <<>> /\ cEncB = <<>> /\ cDec = DecPanic /\ cPc = "off"

OpenIdle ==
    /\ oOpts = <<>> /\ fs = [d \in Dirs |-> NoFile] /\ oRes = NoResult
    /\ handles = 0 /\ oPc = "off"

WriterIdle ==
    /\ wDb = EmptyWrapper /\ wRecord = EmptyMap
    /\ wOut = [key |-> <<>>, value |-> <<>>, rec |-> EmptyMap]
    /\ wDecoded = MapPanic /\ wPc = "off"

IngestIdle ==
    /\ gDb = EmptyWrapper /\ store = NoEntries /\ txn = NewTxn /\ ch = <<>>
    /\ chClosed = TRUE /\ nRead = 0 /\ recvPc = "off" /\ recvErr = FALSE
    /\ lww = NoEntries /\ failed = FALSE /\ rolled = 0 /\ faultsLeft = 0
    /\ srcLen = 0 /\ run = 0 /\ sent = <<>> /\ inserted = <<>> /\ committed = FALSE /\ mainPc = "off"

IterIdle ==
    /\ iDb = EmptyWrapper /\ iStore = NoEntries /\ partialKeys = <<>> /\ aggs = <<>>
    /\ itNil = FALSE /\ lastName = "" /\ iterPc = "off" /\ iterErr = "" /\ pos = 0
    /\ lastKeyBytes = <<>> /\ lastKeyMap = NilMap /\ valueMaps = <<>>
    /\ emitted = <<>> /\ cbFailedAt = 0

AggIdle == aColl = <<>> /\ aAgg = NilAgg /\ aOut = Nil /\ aPc = "off"

\* The codec alone.
InitCodec == CodecInit /\ OpenIdle /\ WriterIdle /\ IngestIdle /\ IterIdle /\ AggIdle
NextCodec ==
    \/ CodecEncode /\ UNCHANGED <<openVars, writerVars, ingestVars, iterVars, aggVars>>
    \/ CodecDecode /\ UNCHANGED <<openVars, writerVars, ingestVars, iterVars, aggVars>>
SpecCodec == InitCodec /\ [][NextCodec]_vars

\* Open, Close and Destroy.
InitOpen == build = "wrap" /\ OpenInit /\ CodecIdle /\ WriterIdle /\ IngestIdle /\ IterIdle /\ AggIdle
NextOpen ==
    \/ OpenCall /\ UNCHANGED <<build, codecVars, writerVars, ingestVars, iterVars, aggVars>>
    \/ CloseCall /\ UNCHANGED <<build, codecVars, writerVars, ingestVars, iterVars, aggVars>>
    \/ DestroyCall /\ UNCHANGED <<build, codecVars, writerVars, ingestVars, iterVars, aggVars>>
SpecOpen == InitOpen /\ [][NextOpen]_vars

\* The record writer and the merger's value decoding.
InitWriter == WriterInit /\ CodecIdle /\ OpenIdle /\ IngestIdle /\ IterIdle /\ AggIdle
NextWriter ==
    \/ WriterExtract /\ UNCHANGED <<codecVars, openVars, ingestVars, iterVars, aggVars>>
    \/ WriterRestore /\ UNCHANGED <<codecVars, openVars, ingestVars, iterVars, aggVars>>
SpecWriter == InitWriter /\ [][NextWriter]_vars

\* Ingestion: the reader, the channel, Recv and the backend's inserter.
InitIngest == IngestInit /\ CodecIdle /\ OpenIdle /\ WriterIdle /\ IterIdle /\ AggIdle
NextIngest ==
    \/ ReadLine /\ UNCHANGED <<codecVars, openVars, writerVars, iterVars, aggVars>>
    \/ ReadEnd /\ UNCHANGED <<codecVars, openVars, writerVars, iterVars, aggVars>>
    \/ RecvBegin /\ UNCHANGED <<codecVars, openVars, writerVars, iterVars, aggVars>>
    \/ RecvRecord /\ UNCHANGED <<codecVars, openVars, writerVars, iterVars, aggVars>>
    \/ RecvEnd /\ UNCHANGED <<codecVars, openVars, writerVars, iterVars, aggVars>>
    \/ MainAfterRecv /\ UNCHANGED <<codecVars, openVars, writerVars, iterVars, aggVars>>
SpecIngest == InitIngest /\ [][NextIngest]_vars

\* The command-line program, run again and again into one directory.
InitCli == CliInit /\ CodecIdle /\ OpenIdle /\ WriterIdle /\ IterIdle /\ AggIdle
NextCli ==
    \/ CliReadLine /\ UNCHANGED <<codecVars, openVars, writerVars, iterVars, aggVars>>
    \/ ReadEnd /\ UNCHANGED <<codecVars, openVars, writerVars, iterVars, aggVars>>
    \/ RecvBegin /\ UNCHANGED <<codecVars, openVars, writerVars, iterVars, aggVars>>
    \/ RecvRecord /\ UNCHANGED <<codecVars, openVars, writerVars, iterVars, aggVars>>
    \/ RecvEnd /\ UNCHANGED <<codecVars, openVars, writerVars, iterVars, aggVars>>
    \/ MainAfterRecv /\ UNCHANGED <<codecVars, openVars, writerVars, iterVars, aggVars>>
    \/ CliRunAgain /\ UNCHANGED <<codecVars, openVars, writerVars, iterVars, aggVars>>
SpecCli == InitCli /\ [][NextCli]_vars

\* Merge iteration over a store.
Init == IterInit /\ CodecIdle /\ OpenIdle /\ WriterIdle /\ IngestIdle /\ AggIdle
Next ==
    \/ WithPartialKey /\ UNCHANGED <<codecVars, openVars, writerVars, ingestVars, aggVars>>
    \/ WithAgg /\ UNCHANGED <<codecVars, openVars, writerVars, ingestVars, aggVars>>
    \/ IterStart /\ UNCHANGED <<codecVars, openVars, writerVars, ingestVars, aggVars>>
    \/ IterStep /\ UNCHANGED <<codecVars, openVars, writerVars, ingestVars, aggVars>>
    \/ IterFinish /\ UNCHANGED <<codecVars, openVars, writerVars, ingestVars, aggVars>>
Spec == Init /\ [][Next]_vars

-----------------------------------------------------------------------------
(* Properties.                                                             *)

\* -- The integer codec (SpecCodec).

\* cA and cB are integers of the kind's own Go type.
OwnTyped == cA.t = cKind /\ cB.t = cKind

\* C2: for two integers a < b of the same declared width, negative values
\* and pairs of different sign included, the encoded bytes of a are
\* byte-lexicographically smaller than the encoded bytes of b.
C2_EncodeKeepsOrder ==
    (cPc \in {"encoded", "decoded"} /\ OwnTyped /\ cA.n < cB.n)
        => BytesLess(cEncA, cEncB)

\* Encoding keeps the order of two integers of the same sign.
SameSignKeepsOrder ==
    (cPc \in {"encoded", "decoded"} /\ OwnTyped /\ cA.n < cB.n
        /\ ((cA.n < 0) <=> (cB.n < 0)))
        => BytesLess(cEncA, cEncB)

\* C10: for each integer type and every integer v in its range,
\* decode(encode(v)) returns v and a consumed length equal to the encoded
\* length (1, 2, 4, 8 bytes), also when more bytes follow the encoded value.
C10_DecodeInvertsEncode ==
    cPc = "decoded"
        => /\ cDec.ok
           /\ cDec.val = GoNum(cKind, cA.n)
           /\ cDec.step = Width(cKind)
           /\ cDec.step = Len(cEncA)

\* The round trip holds for every value that reaches the encoder as a Go
\* integer, and for every float on a build that wraps.
IntTypedRoundTrip ==
    (cPc = "decoded" /\ (cA.t \in SwitchIntTypes \/ cA.n >= 0 \/ build = "wrap"))
        => /\ cDec.ok
           /\ cDec.val = GoNum(cKind, cA.n)
           /\ cDec.step = Width(cKind)

\* -- Store construction (SpecOpen).

\* Open has returned a store.
Opened == oPc \in {"opened", "closed", "destroyed"}

\* C9 as stated: for every number n of value fields the bitmask width is
\* ceil(n / 8) bytes, and at least 1 byte.
C9_WidthIsCeil ==
    Opened =>
        oRes.w.masks = CeilMaskWidth(Len(oRes.w.values))

\* C9: the bitmask width of a store with n value fields is floor(n / 8) + 1
\* bytes: ceil(n / 8) when n is not a multiple of 8, one byte more than
\* ceil(n / 8) when it is (1 byte for n = 0), and so at least 1 byte.
C9_MaskWidth ==
    Opened =>
        LET n == Len(oRes.w.values)
        IN  /\ oRes.w.masks = CeilDiv8(n) + (IF n % 8 = 0 THEN 1 ELSE 0)
            /\ oRes.w.masks >= 1
            /\ 8 * oRes.w.masks > n

\* A store with exactly 8 value fields is open: its width is 2 bytes.
C9_EightFields == Opened /\ Len(oRes.w.values) = 8 /\ oRes.w.masks = 2

\* -- The record writer and RestoreValue (SpecWriter).

\* Value field i (0-based) of the schema is left out of the record or null.
NotSet(i) ==
    LET f == wDb.values[i + 1]
    IN f.name \notin DOMAIN wRecord \/ wRecord[f.name] = Nil

\* The decoded value d is the value x the record held for a field of the kind.
SameValue(kind, x, d) ==
    IF kind = "string" THEN d = GoStr(x.s) ELSE d = GoNum(kind, x.n)

RECURSIVE PayloadLen(_)
\* The bytes the encoders give the fields 0 .. i-1 that are set.
PayloadLen(i) ==
    IF i = 0 THEN 0
    ELSE PayloadLen(i - 1)
            + (IF NotSet(i - 1) THEN 0
               ELSE Len(Encode(wDb.values[i].kind, wRecord[wDb.values[i].name], build)))

\* Bit i of the written value's bitmask is set exactly for the fields not
\* set, and those fields add no payload byte.
MaskBitsRight ==
    LET n == Len(wDb.values)
    IN  /\ Len(wOut.value) = wDb.masks + PayloadLen(n)
        /\ \A i \in 0..(n - 1) :
            BitIsSet(wOut.value[(i \div 8) + 1], MaskBit(i)) <=> NotSet(i)

\* RestoreValue gives exactly the set fields, with the record's values.
RestoredRight ==
    /\ wDecoded.ok
    /\ DOMAIN wDecoded.m = {wDb.values[i + 1].name : i \in {j \in 0..(Len(wDb.values) - 1) : ~NotSet(j)}}
    /\ \A i \in 1..Len(wDb.values) :
        ~NotSet(i - 1) =>
            SameValue(wDb.values[i].kind, wRecord[wDb.values[i].name],
                      wDecoded.m[wDb.values[i].name])

\* C8: for a schema with N value fields and any record, bit i of the value
\* bytes is set exactly when value field i is omitted or null, such a field
\* adds no payload byte, and RestoreValue of the bytes yields exactly the
\* non-null value fields with their values.
C8_BitmaskRoundTrip ==
    /\ (wPc \in {"written", "restored"} /\ Len(wDb.values) > 0) => MaskBitsRight
    /\ wPc = "restored" => RestoredRight

\* The bitmask and payload length are right for every record written.
MaskBitsAlways ==
    (wPc \in {"written", "restored"} /\ Len(wDb.values) > 0) => MaskBitsRight

\* The round trip is right when no string reaches LongLen bytes and the
\* build wraps.
ShortStringsRoundTrip ==
    (wPc = "restored" /\ build = "wrap"
        /\ \A name \in DOMAIN wRecord : Len(wRecord[name].s) < LongLen)
        => RestoredRight

\* -- Ingestion (SpecIngest).

\* C5: after Recv returns, the stored entries are exactly the
\* last-write-wins map of all (key, value) pairs passed to Insert, whether
\* or not an Insert rolled over; a rollover loses and duplicates nothing.
C5_LastWriteWins ==
    (recvPc = "returned" /\ ~recvErr) => store = lww

\* Without a backend failure the store is the last-write-wins map, rollovers
\* included.
NoFaultLastWriteWins ==
    (recvPc = "returned" /\ faultsLeft = MaxFaults) => store = lww

\* A run without a backend failure in which an Insert rolled over.
RolledWithoutFault == recvPc = "returned" /\ faultsLeft = MaxFaults /\ rolled > 0

\* C6: a backend failure of Insert or Commit during ingestion is returned
\* as an error to the caller of Recv; no write failure is swallowed.
C6_FailureReturned ==
    (recvPc = "returned" /\ failed) => recvErr

\* -- Merge iteration (Spec).

\* The iterator's Merger.
TheMerger == MkMerger(iDb, partialKeys, aggs)

\* Every WithPartialKey call gave an iterator, and the partial keys are the
\* first n key fields of the schema, n >= 1.
LeadingPrefix ==
    /\ ~itNil
    /\ Len(partialKeys) >= 1
    /\ Len(partialKeys) <= Len(iDb.keys)
    /\ partialKeys = SubSeq(iDb.keys, 1, Len(partialKeys))

\* Every registered aggregation names a known operator.
AggsKnown == \A i \in 1..Len(aggs) : aggs[i].agg # NilAgg

\* The partial-key prefix of a stored key, and the distinct prefixes stored.
PrefixOf(k) == RestoreKey(TheMerger, k).bytes
Prefixes == {PrefixOf(k) : k \in DOMAIN iStore}

\* The byte strings of S in ascending order.
Ascending(S) ==
    [i \in 1..Cardinality(S) |->
        CHOOSE k \in S : Cardinality({j \in S : BytesLess(j, k)}) = i - 1]

\* The decoded value-records of the entries with prefix p, in key order; no
\* record at all under a schema without value fields.
RecordsOf(p) ==
    LET members == Ascending({k \in DOMAIN iStore : PrefixOf(k) = p})
    IN IF NoValue(TheMerger) THEN <<>>
       ELSE [i \in 1..Len(members) |-> RestoreValue(TheMerger, iStore[members[i]]).m]

\* One call of the callback per distinct prefix, in ascending prefix order,
\* each with the group's decoded key and exactly the group's value-records.
GroupedRight ==
    /\ Len(emitted) = Cardinality(Prefixes)
    /\ \A i \in 1..Len(emitted) :
        LET p == Ascending(Prefixes)[i]
        IN  /\ emitted[i].key = MadeMap(RestoreKey(TheMerger, p).m)
            /\ emitted[i].coll = RecordsOf(p)
            /\ emitted[i].res.ok

ByK == ~itNil /\ Len(partialKeys) = 1 /\ partialKeys[1].name = "k"

\* C3: Iter delivers merged records in ascending order of the partial-key
\* value: for an integer partial key k of any sign a group with a smaller k
\* is delivered before a group with a larger k, and none is delivered twice.
C3_AscendingK ==
    ByK => \A i, j \in 1..Len(emitted) :
                i < j => emitted[i].key.m["k"].n < emitted[j].key.m["k"].n

\* Groups are delivered in ascending order of their key bytes.
AscendingKeyBytes ==
    ByK => \A i, j \in 1..Len(emitted) :
                i < j => BytesLess(Encode("int8", emitted[i].key.m["k"], build),
                                   Encode("int8", emitted[j].key.m["k"], build))

\* Iter has ended, by return or panic, over a store without entries.
EndedOnEmpty ==
    iStore = NoEntries /\ ~itNil /\ iterPc \in {"done", "error", "panic"}

\* C4: Iter over a store with zero entries calls the callback exactly once,
\* with a merged record whose key fields are unset and in which every
\* registered aggregator is evaluated over an empty collection, for any list
\* of registered aggregations, empty or not.
C4_EmptyStoreOneRecord ==
    (EndedOnEmpty /\ AggsKnown)
        => /\ iterPc # "panic"
           /\ Len(emitted) = 1
           /\ emitted[1].coll = <<>>
           /\ \A i \in 1..Len(partialKeys) :
                partialKeys[i].name \notin DOMAIN emitted[1].res.m
           /\ \A i \in 1..Len(aggs) :
                /\ aggs[i].name \in DOMAIN emitted[1].res.m
                /\ emitted[1].res.m[aggs[i].name] = AggOn(aggs[i].agg, <<>>)

\* Without a registered aggregation the empty store gives one callback call.
EmptyStoreNoAggs ==
    (EndedOnEmpty /\ aggs = <<>>)
        => /\ iterPc # "panic"
           /\ Len(emitted) = 1
           /\ emitted[1].coll = <<>>

\* C7: when the callback returns an error, iteration stops at once: the
\* callback is not called again, neither for a later group nor for the
\* pending one, and Iter returns that error.
C7_CallbackErrorStops ==
    cbFailedAt > 0
        => /\ iterPc = "error"
           /\ iterErr = "callback"
           /\ Len(emitted) = cbFailedAt

\* The callback failed on a group while entries of the store were still to
\* be visited.
C7_FailedMidway ==
    /\ cbFailedAt > 0
    /\ iterPc = "error"
    /\ pos <= Cardinality(DOMAIN iStore)
    /\ Cardinality(Prefixes) > cbFailedAt

-----------------------------------------------------------------------------
(* String and JSON codec runs (SpecString): encode one value, decode it.   *)

\* Longest of the short sampled strings.
MaxShort == 2

\* Sampled lengths: the short ones and those around the values at which the
\* 2-byte header changes sign (LongLen) and wraps (256^2).
StrLens ==
    (0..MaxShort) \cup {LongLen - 3, LongLen - 2, Pow256(2) - 1, Pow256(2)}

\* Strings of a sampled length: all letters, or with a quote in them.
StringInputs ==
    {GoStr([i \in 1..n |-> 120]) : n \in StrLens}
        \cup {GoStr(<<Quote>>), GoStr(<<97, Backslash>>)}

\* Values a json field may be given besides strings.
JsonInputs == {Nil, GoNum("float64", 7), GoNum("float64", -12), GoNum("int32", 0)}

StringInit ==
    /\ build = "wrap"
    /\ cKind \in {"string", "json"}
    /\ cA \in StringInputs \cup (IF cKind = "json" THEN JsonInputs ELSE {})
    /\ cB = Nil
    /\ cTail \in (IF Len(cA.s) > MaxShort THEN {<<0>>} ELSE Tails)
    /\ cEncA = <<>>
    /\ cEncB = <<>>
    /\ cDec = DecPanic
    /\ cPc = "start"

InitString == StringInit /\ OpenIdle /\ WriterIdle /\ IngestIdle /\ IterIdle /\ AggIdle
NextString ==
    \/ CodecEncode /\ UNCHANGED <<openVars, writerVars, ingestVars, iterVars, aggVars>>
    \/ CodecDecode /\ UNCHANGED <<openVars, writerVars, ingestVars, iterVars, aggVars>>
SpecString == InitString /\ [][NextString]_vars

\* The body the codec of cKind puts after the header for cA.
BodyOf == IF cKind = "json" THEN JsonMarshal(cA) ELSE cA.s

\* The value decode is to give back: cA, a number as the float64 JSON has.
Expected == IF cA.t \in {"nil", "string"} THEN cA ELSE GoNum("float64", cA.n)

\* The header is the body's length as a big-endian unsigned 16-bit number.
HeaderIsLength == 256 * cEncA[1] + cEncA[2] = Len(BodyOf)

\* C11: for every string of byte length 0 to 65,535 the string codec writes
\* a 2-byte big-endian unsigned length followed by the bytes, and
\* decode(encode(s)) returns s with consumed length 2 + len(s); the same
\* length handling holds for the JSON codec.
C11_StringRoundTrip ==
    (Len(BodyOf) < Pow256(2))
        => /\ cPc \in {"encoded", "decoded"}
                => (HeaderIsLength /\ cEncA = SubSeq(cEncA, 1, 2) \o BodyOf)
           /\ cPc = "decoded"
                => (cDec.ok /\ cDec.val = Expected /\ cDec.step = 2 + Len(BodyOf))

\* The encoding is header and body for every body below 65,536 bytes, and
\* the round trip holds for every body up to 32,765 bytes.
ShortBodyRoundTrip ==
    /\ (Len(BodyOf) < Pow256(2) /\ cPc \in {"encoded", "decoded"})
            => (HeaderIsLength /\ cEncA = SubSeq(cEncA, 1, 2) \o BodyOf)
    /\ (Len(BodyOf) < LongLen - 2 /\ cPc = "decoded")
            => (cDec.ok /\ cDec.val = Expected /\ cDec.step = 2 + Len(BodyOf))

\* C12: encoding a string longer than 65,535 bytes fails with an encoding
\* error; it never produces bytes whose length prefix differs from the
\* length of the body that follows.
C12_OversizeRejected ==
    (cPc \in {"encoded", "decoded"} /\ Len(BodyOf) >= Pow256(2))
        => (cEncA = <<>> \/ (HeaderIsLength /\ Len(cEncA) = 2 + Len(BodyOf)))

-----------------------------------------------------------------------------
(* Aggregator runs (SpecAgg): one aggregator applied to one collection of   *)
(* decoded value-records.                                                   *)

\* Most value-records of a sampled collection.
MaxGroup == 3

\* Values of field x in a decoded value-record: null, integers of every
\* width, a JSON number, a string and a JSON array.
AggValues ==
    {Nil, GoNum("int8", -5), GoNum("int8", 3), GoNum("int16", -5), GoNum("int32", 3),
     GoNum("int64", 70000), GoNum("int", 7), GoNum("float64", 3), GoStr(<<51>>),
     GoSlice(<<1, 2>>)}

\* A value-record: field y always, field x absent or holding a sampled value.
AggRecords ==
    {[name \in {"y"} |-> GoNum("int8", 9)]}
        \cup {[name \in {"x", "y"} |-> IF name = "x" THEN v ELSE GoNum("int8", 9)] :
                 v \in AggValues}

AggColls == UNION {[1..n -> AggRecords] : n \in 0..MaxGroup}

AggInit ==
    /\ aColl \in AggColls
    /\ aAgg \in {chooseAggregator(fn, "x") : fn \in KnownOps}
    /\ aOut = Nil
    /\ aPc = "start"

\* agg.on(valueValues)
AggRun ==
    /\ aPc = "start"
    /\ LET res == AggOn(aAgg, aColl)
       IN /\ aOut' = res
          /\ aPc' = IF res.t = "panic" THEN "panic" ELSE "done"
    /\ UNCHANGED <<aColl, aAgg>>

InitAgg ==
    build = "wrap" /\ AggInit /\ CodecIdle /\ OpenIdle /\ WriterIdle /\ IngestIdle /\ IterIdle
NextAgg ==
    \/ AggRun /\ UNCHANGED <<build, codecVars, openVars, writerVars, ingestVars, iterVars>>
SpecAgg == InitAgg /\ [][NextAgg]_vars

\* The records of the collection in which x is present, is present and not
\* null, and is an integer of some width.
Present == {i \in 1..Len(aColl) : "x" \in DOMAIN aColl[i]}
NonNull == {i \in Present : aColl[i]["x"].t # "nil"}
IntWidths == {"int8", "int16", "int32", "int64", "int"}
IntOccurrences == {i \in Present : aColl[i]["x"].t \in IntWidths}

RECURSIVE TotalOver(_)
TotalOver(S) ==
    IF S = {} THEN 0
    ELSE LET i == CHOOSE j \in S : TRUE IN aColl[i]["x"].n + TotalOver(S \ {i})

Ran(fn) == aPc \in {"done", "panic"} /\ aAgg.fn = fn

\* C13: sum(x) is the sum of x over the records where x is an integer of any
\* width, as an int64; absent, null and non-integer occurrences are skipped,
\* and the result is 0 when there is no integer occurrence.
C13_SumOfIntegers ==
    Ran("sum") => (aPc = "done" /\ aOut = GoNum("int64", TotalOver(IntOccurrences)))

\* Reached: a sum over integers of two widths beside a skipped occurrence.
C13_MixedSum ==
    /\ Ran("sum")
    /\ \E i, j \in IntOccurrences : aColl[i]["x"].t # aColl[j]["x"].t
    /\ \E i \in 1..Len(aColl) : i \notin IntOccurrences
    /\ aOut.n = 70003

\* Reached: a sum over a collection without an integer occurrence.
SumOfNone == Ran("sum") /\ Len(aColl) > 0 /\ IntOccurrences = {} /\ aOut = GoNum("int64", 0)

\* C14: min(x) and max(x) are the smallest and the largest x over the
\* records where x is an integer of any width, as an int64; the result is
\* null when there is no integer occurrence.
C14_MinMaxOfIntegers ==
    (Ran("min") \/ Ran("max")) =>
        /\ aPc = "done"
        /\ IF IntOccurrences = {} THEN aOut = Nil
           ELSE /\ aOut.t = "int64"
                /\ \E i \in IntOccurrences : aColl[i]["x"].n = aOut.n
                /\ \A i \in IntOccurrences :
                      IF aAgg.fn = "min" THEN aOut.n <= aColl[i]["x"].n
                      ELSE aOut.n >= aColl[i]["x"].n

\* Reached: a minimum that comes after a larger integer of another width, in
\* a collection that also holds a skipped occurrence.
C14_MinInTheMiddle ==
    /\ Ran("min")
    /\ Len(aColl) = 3
    /\ \E i \in 1..Len(aColl) : i \notin IntOccurrences
    /\ \E i, j \in IntOccurrences :
          /\ i < j
          /\ aColl[i]["x"].t # aColl[j]["x"].t
          /\ aColl[i]["x"].n > aColl[j]["x"].n
          /\ aOut.n = aColl[j]["x"].n

\* Reached: a maximum over integers, and no maximum where none is an integer.
MaxReached == Ran("max") /\ Cardinality(IntOccurrences) > 1 /\ aOut.n = 70000
MinOfNone == Ran("min") /\ Len(aColl) > 0 /\ IntOccurrences = {} /\ aOut = Nil

\* C16: first(x) is x of the first record of the collection, null when the
\* collection is empty or that record has no x; first_not_null(x) is x of
\* the earliest record where x is present and not null, null if there is none.
C16_FirstAndFirstNotNull ==
    /\ Ran("first") =>
          /\ aPc = "done"
          /\ aOut = IF 1 \in Present THEN aColl[1]["x"] ELSE Nil
    /\ Ran("first_not_null") =>
          /\ aPc = "done"
          /\ IF NonNull = {} THEN aOut = Nil
             ELSE \E i \in NonNull : (\A j \in NonNull : i <= j) /\ aOut = aColl[i]["x"]

\* Reached: first_not_null passes over an absent and a null occurrence.
C16_SkipsNull ==
    /\ Ran("first_not_null")
    /\ Len(aColl) = 3
    /\ 1 \notin Present
    /\ 2 \in Present \ NonNull
    /\ 3 \in NonNull
    /\ aOut = aColl[3]["x"]

\* Reached: first returns the null of the first record though a later one is not null.
FirstIsNull == Ran("first") /\ 1 \in Present \ NonNull /\ NonNull # {} /\ aOut = Nil

\* The string forms of the non-null values of x.
StringForms == {Sprintf(aColl[i]["x"]) : i \in NonNull}

CountRight == aOut = GoNum("int64", Cardinality(Present))
CountDistinctRight ==
    aOut = GoNum("int64", Cardinality({aColl[i]["x"] : i \in NonNull}))
TallyRight ==
    /\ DOMAIN aOut.s = StringForms
    /\ \A k \in StringForms :
          aOut.s[k] = Cardinality({i \in NonNull : Sprintf(aColl[i]["x"]) = k})

\* C15: count(x) is the number of records in which x is present, null
\* included; count_distinct(x) is the number of distinct non-null values of
\* x; tally(x) maps the string form of each non-null value of x to its number
\* of occurrences and has no entry for null.
C15_CountsAndTally ==
    /\ Ran("count") => (aPc = "done" /\ CountRight)
    /\ Ran("count_distinct") => (aPc = "done" /\ CountDistinctRight)
    /\ Ran("tally") => (aPc = "done" /\ TallyRight)

\* The same over collections whose non-null values of x can all be map keys.
AllHashable == \A i \in NonNull : Hashable(aColl[i]["x"])
HashableCountsAndTally ==
    /\ Ran("count") => (aPc = "done" /\ CountRight)
    /\ (Ran("count_distinct") /\ AllHashable) => (aPc = "done" /\ CountDistinctRight)
    /\ Ran("tally") => (aPc = "done" /\ TallyRight)

\* Reached: count_distinct over a collection holding a JSON array panics.
DistinctPanics == Ran("count_distinct") /\ ~AllHashable /\ aPc = "panic"
\* Reached: a tally with two occurrences under one string form.
TallyOfTwo == Ran("tally") /\ \E k \in StringForms : aOut.s[k] = 2

-----------------------------------------------------------------------------
(* Reopening and option errors (SpecOpen).                                  *)

\* The directory the caller's options name: the last WithDir, "" if none.
CallerDir ==
    LET ds == {i \in DOMAIN oOpts : oOpts[i].op = "dir"}
    IN  IF ds = {} THEN ""
        ELSE oOpts[CHOOSE i \in ds : \A j \in ds : j <= i].name

\* The fields the caller's options declare with a given option, in order.
CallerFields(op) ==
    LET F[i \in 0..Len(oOpts)] ==
            IF i = 0 THEN <<>>
            ELSE IF oOpts[i].op = op THEN Append(F[i - 1], Field(oOpts[i].name, oOpts[i].kind))
            ELSE F[i - 1]
    IN  F[Len(oOpts)]

\* The kinds of the schema, as the specification lists them.
SixKinds == {"int8", "int16", "int32", "int64", "string", "json"}
CallerKindsSupported ==
    \A i \in DOMAIN oOpts : oOpts[i].op \in {"key", "value"} => oOpts[i].kind \in SixKinds

\* This step is an Open on a directory that holds a descriptor.
OpenOnDescriptor == oPc = "start" /\ oPc' # "start" /\ CallerDir # "" /\ fs[CallerDir].present

\* The store Open returned is the one the descriptor describes, and the
\* descriptor is as it was.  Only the backend's builder or the rewriting of
\* the descriptor may fail.
BuiltFromDescriptor ==
    /\ oRes'.err \in {"", "fail to open db", "fail to lock schema"}
    /\ oRes'.err = "" =>
          /\ oRes'.w.store = fs[CallerDir].store
          /\ oRes'.w.keys = fs[CallerDir].keys
          /\ oRes'.w.values = fs[CallerDir].values
          /\ oRes'.w.masks = (Len(fs[CallerDir].values) \div 8) + 1
          /\ oRes'.w.dir = CallerDir
          /\ oRes'.w.db
    /\ oRes'.err # "fail to lock schema" => fs' = fs

CallerSchemaDiffers ==
    \/ CallerFields("key") # fs[CallerDir].keys
    \/ CallerFields("value") # fs[CallerDir].values

C18_MismatchIsError ==
    [][(OpenOnDescriptor /\ CallerSchemaDiffers) =>
          (oPc' = "failed" /\ oRes'.err # "" /\ oRes'.w = EmptyWrapper)]_vars

\* What holds instead: with supported kinds in the caller's options and no
\* failure of the backend or the file system, the mismatch goes unreported.
MismatchUnreported ==
    [][(OpenOnDescriptor /\ CallerSchemaDiffers /\ CallerKindsSupported) =>
          oRes'.err \in {"", "fail to open db", "fail to lock schema"}]_vars

\* Some key or value option names a kind that is not one of the six.
BadKindDeclared ==
    \E i \in DOMAIN oOpts : oOpts[i].op \in {"key", "value"} /\ oOpts[i].kind \notin SixKinds

\* C20: a key or value field of a kind other than int8, int16, int32, int64,
\* string or json makes Open fail: it returns an error and no store, opens no
\* backend and writes no descriptor.
C20_UnsupportedKindFails ==
    [][(oPc = "start" /\ oPc' # "start" /\ BadKindDeclared) =>
          /\ oPc' = "failed"
          /\ oRes'.err = "fail to handle option"
          /\ oRes'.w = EmptyWrapper
          /\ handles' = handles
          /\ fs' = fs]_vars

\* Reached: a failed Open whose options declared a float field for a new store.
C20_FloatRejected ==
    /\ oPc = "failed"
    /\ BadKindDeclared
    /\ \E i \in DOMAIN oOpts : oOpts[i].op = "storage" /\ oOpts[i].name \in Registration
    /\ oRes.err = "fail to handle option"
    /\ handles = 0
    /\ \A d \in Dirs : ~fs[d].present

-----------------------------------------------------------------------------
(* The ingestion pipeline under fair scheduling (SpecPipeline): the reader  *)
(* goroutine, Recv and main each take a step they can take.                 *)

Reader ==
    (ReadLine \/ ReadEnd) /\ UNCHANGED <<codecVars, openVars, writerVars, iterVars, aggVars>>
Receiver ==
    (RecvBegin \/ RecvRecord \/ RecvEnd)
        /\ UNCHANGED <<codecVars, openVars, writerVars, iterVars, aggVars>>
MainStep ==
    MainAfterRecv /\ UNCHANGED <<codecVars, openVars, writerVars, iterVars, aggVars>>

SpecPipeline ==
    InitIngest /\ [][NextIngest]_vars
        /\ WF_vars(Reader) /\ WF_vars(Receiver) /\ WF_vars(MainStep)

\* The queue holds at most its capacity; a send happens only below the
\* capacity and a receive only from a queue that holds a record.
QueueBounded == [](Len(ch) <= ChanCap)
SendWaitsWhenFull == [][sent' # sent => (Len(ch) < ChanCap /\ ch' = Append(ch, sent'[Len(sent')]))]_vars
ReceiveWaitsWhenEmpty == [][inserted' # inserted => (ch # <<>> /\ ch' = Tail(ch))]_vars

\* C19: the queue never holds more than its capacity, the reader waits when
\* it is full and the writer when it is empty; the reader eventually closes
\* the queue and Recv eventually returns; every record the reader enqueued
\* has then been passed to Insert exactly once in the order it was read, the
\* write stream has been committed, and no merged record is emitted before
\* that commit.
C19_Pipeline ==
    /\ QueueBounded
    /\ SendWaitsWhenFull
    /\ ReceiveWaitsWhenEmpty
    /\ <>chClosed
    /\ <>(recvPc = "returned")
    /\ [](recvPc = "returned" => (inserted = sent /\ committed))
    /\ [](mainPc = "iter" => committed)

\* What holds in every run, faults included: the records passed to Insert
\* followed by those still queued are the records sent, in order; Recv
\* returns; the queue is closed unless Recv has returned an error; main
\* iterates only after Recv has returned; a Recv that returned nil has passed
\* every record sent to Insert.
InsertedThenQueuedIsSent == [](inserted \o ch = sent)
RecvReturns == <>(recvPc = "returned")
ClosedUnlessError == <>(chClosed \/ recvErr)
IterAfterRecv == [](mainPc = "iter" => (recvPc = "returned" /\ ~recvErr /\ inserted = sent))
PipelineWithFaults ==
    /\ QueueBounded
    /\ SendWaitsWhenFull
    /\ ReceiveWaitsWhenEmpty
    /\ InsertedThenQueuedIsSent
    /\ RecvReturns
    /\ ClosedUnlessError
    /\ IterAfterRecv
    /\ []((recvPc = "returned" /\ ~failed) => committed \/ recvErr)

\* Reached: Recv has returned nil and main iterates although the deferred
\* Commit failed.
IterWithoutCommit ==
    mainPc = "iter" /\ ~committed /\ ~recvErr /\ inserted = sent /\ Len(sent) > 0
\* Reached: Recv has returned an error while the reader still holds the
\* queue full and open.
ReaderLeftBlocked ==
    recvPc = "returned" /\ recvErr /\ Len(ch) = ChanCap /\ ~chClosed /\ nRead < srcLen
\* Reached: a full queue with a line still to send.
QueueFull == Len(ch) = ChanCap /\ nRead < srcLen /\ recvPc = "running"

-----------------------------------------------------------------------------
(* Unregistered storage names (SpecOpen).                                   *)

\* The storage name the caller's options give: the last WithStorage, "" if none.
CallerStore ==
    LET ss == {i \in DOMAIN oOpts : oOpts[i].op = "storage"}
    IN  IF ss = {} THEN ""
        ELSE oOpts[CHOOSE i \in ss : \A j \in ss : j <= i].name

\* The storage name store construction selects the backend by: the
\* descriptor's when the caller's directory holds one, else the caller's.
SelectedStore ==
    IF CallerDir # "" /\ fs[CallerDir].present THEN fs[CallerDir].store ELSE CallerStore

-----------------------------------------------------------------------------
(* Backend handles on Open's error paths (SpecOpen).                        *)

\* C28: whenever Open returns an error, no backend handle opened by that call
\* is left open; and Close runs before Destroy, after which none is open.
C28_NoHandleLeftOpen ==
    /\ oPc = "failed" => handles = 0
    /\ oPc \in {"closed", "destroyed"} => handles = 0

\* What holds: a handle is left open by a failed Open only when the writing
\* of the descriptor failed; Close before Destroy releases the handle of a
\* store that was opened.
HandleLeftOnlyByLockSchema ==
    /\ (oPc = "failed" /\ oRes.err # "fail to lock schema") => handles = 0
    /\ (oPc = "failed" /\ oRes.err = "fail to lock schema") => handles = 1
    /\ oPc \in {"closed", "destroyed"} => handles = 0

-----------------------------------------------------------------------------
(* Partial-key selection (Spec).                                            *)

\* The names of the schema's key fields.
KeyNames == {iDb.keys[i].name : i \in 1..Len(iDb.keys)}

\* This step is a WithPartialKey call on an iterator.
SelectsKey == iterPc = "idle" /\ ~itNil /\ (partialKeys' # partialKeys \/ itNil')

\* C22: WithPartialKey with a name that is not a key field of the schema
\* returns nil instead of an iterator and leaves the partial-key list and the
\* aggregation list unchanged; with the name of a key field it returns the
\* iterator, that field appended.
C22_UnknownKeyGivesNil ==
    [][SelectsKey =>
          IF lastName' \notin KeyNames
          THEN itNil' /\ partialKeys' = partialKeys /\ aggs' = aggs
          ELSE /\ ~itNil'
               /\ Len(partialKeys') = Len(partialKeys) + 1
               /\ partialKeys'[Len(partialKeys')].name = lastName'
               /\ aggs' = aggs]_vars

\* Reached: nil after a key and an aggregation were registered.
C22_NilAfterKey ==
    /\ itNil
    /\ lastName = "zz"
    /\ Len(partialKeys) = 1
    /\ Len(aggs) = 1
    /\ iterPc = "idle"

\* C23: after any sequence of successful WithPartialKey calls the partial-key
\* selection is a leading prefix of the schema's key fields, in schema order
\* and without repeats.
C23_SelectionIsLeadingPrefix ==
    ~itNil =>
        /\ Len(partialKeys) <= Len(iDb.keys)
        /\ partialKeys = SubSeq(iDb.keys, 1, Len(partialKeys))

\* What holds: every selected field is a key field of the schema, in the
\* order of the calls.
SelectionOfKeyFields ==
    \A i \in 1..Len(partialKeys) : \E j \in 1..Len(iDb.keys) : partialKeys[i] = iDb.keys[j]

\* Reached: Iter is done with the second key field alone selected, and the
\* group's record holds under j what the entries hold in k.
SecondKeyAlone ==
    /\ iterPc = "done"
    /\ ~itNil
    /\ Len(partialKeys) = 1
    /\ partialKeys[1].name = "j"
    /\ \E i \in 1..Len(emitted) :
          "j" \in DOMAIN emitted[i].key.m /\ emitted[i].key.m["j"].n = -1

-----------------------------------------------------------------------------
(* The buffer of value-records during Iter (Spec).                          *)

\* The keys the iterator has gone past, in ascending order.
Visited == [i \in 1..(pos - 1) |-> KeyAt(iStore, i)]

\* The decoded value-records of the visited entries whose partial-key prefix
\* is the current group's, in iteration order.
RECURSIVE CurrentGroupRecords(_)
CurrentGroupRecords(i) ==
    IF i = 0 THEN <<>>
    ELSE IF PrefixOf(Visited[i]) = lastKeyBytes
         THEN Append(CurrentGroupRecords(i - 1), RestoreValue(TheMerger, iStore[Visited[i]]).m)
         ELSE CurrentGroupRecords(i - 1)

BufferIsCurrentGroup ==
    (iterPc \in {"running", "done", "error"}) =>
        valueMaps = IF NoValue(TheMerger) THEN <<>> ELSE CurrentGroupRecords(pos - 1)

\* A new group starts: the outgoing group, if any, is delivered with the
\* buffer as it was, and the buffer then holds at most the new entry's record.
NewGroupEmptiesBuffer ==
    (iterPc = "running" /\ lastKeyBytes' # lastKeyBytes) =>
        /\ Len(valueMaps') <= 1
        /\ Len(lastKeyBytes) > 0 =>
              /\ Len(emitted') = Len(emitted) + 1
              /\ emitted'[Len(emitted')].coll = valueMaps
        /\ Len(lastKeyBytes) = 0 => emitted' = emitted

\* What was delivered stays as it was delivered.
DeliveredStays == Len(emitted') >= Len(emitted) /\ SubSeq(emitted', 1, Len(emitted)) = emitted

\* C24: at every point of Iter the buffer of value-records holds only records
\* of entries whose partial-key prefix is the current group's; it is emptied
\* whenever a new group starts, after the outgoing group was delivered, and a
\* delivered merged record is never changed by later entries.
C24_BufferHoldsOneGroup ==
    /\ []BufferIsCurrentGroup
    /\ [][NewGroupEmptiesBuffer]_vars
    /\ [][DeliveredStays]_vars

\* Reached: the second group is being buffered after a first group of two
\* entries was delivered.
C24_SecondGroupBuffered ==
    /\ iterPc = "running"
    /\ ~NoValue(TheMerger)
    /\ Len(emitted) = 1
    /\ Len(emitted[1].coll) = 2
    /\ Len(valueMaps) = 1
    /\ pos = 4

-----------------------------------------------------------------------------
(* Unknown aggregation operators (Spec).                                    *)

\* An aggregation was registered under an operator chooseAggregator does not
\* know: its aggregator is the nil interface.
AbsentAggregator == ~itNil /\ \E i \in 1..Len(aggs) : aggs[i].agg = NilAgg

\* C25: an aggregation whose operator name is not one of the eight yields no
\* aggregator, and Iter still completes with it registered: Merge never
\* invokes an absent aggregator.
C25_AbsentAggregatorSkipped == AbsentAggregator => iterPc # "panic"

\* What holds instead: with an absent aggregator registered the first Merge
\* panics, so Iter returns only when reading a value fails before it.
AbsentAggregatorPanics ==
    AbsentAggregator =>
        /\ iterPc \in {"idle", "running", "panic", "error"}
        /\ iterPc = "error" => iterErr = "value"
        /\ iterPc = "panic" => iterErr = "nil aggregator"
        /\ emitted = <<>>

-----------------------------------------------------------------------------
(* Iter without a partial key (Spec).                                       *)

\* Iter has ended, by return or panic, on a store that holds entries, no
\* partial key selected and every aggregation of a known operator.
EndedWithoutPartialKey ==
    /\ ~itNil
    /\ partialKeys = <<>>
    /\ iStore # NoEntries
    /\ AggsKnown
    /\ iterPc \in {"done", "panic"}

\* C29: with an empty partial-key selection and a store that is not empty,
\* Iter calls the callback exactly once, with a merged record that holds one
\* entry per registered aggregation computed over the value-records of all
\* stored entries.
C29_AllEntriesOneGroup ==
    EndedWithoutPartialKey =>
        /\ iterPc = "done"
        /\ Len(emitted) = 1
        /\ emitted[1].coll = RecordsOf(<<>>)
        /\ emitted[1].res.ok
        /\ \A i \in 1..Len(aggs) :
              /\ aggs[i].name \in DOMAIN emitted[1].res.m
              /\ emitted[1].res.m[aggs[i].name] = AggOn(aggs[i].agg, RecordsOf(<<>>))

\* What holds: without a registered aggregation the callback is called once,
\* with a nil map, all value-records in one buffer; with one, Merge panics on
\* the nil map and the callback is never called.
WithoutPartialKey ==
    EndedWithoutPartialKey =>
        IF aggs = <<>>
        THEN /\ iterPc = "done"
             /\ Len(emitted) = 1
             /\ emitted[1].coll = RecordsOf(<<>>)
             /\ emitted[1].res.isNil
        ELSE /\ iterPc = "panic"
             /\ iterErr = "assignment to entry in nil map"
             /\ emitted = <<>>

-----------------------------------------------------------------------------
(* Schemas without value fields (Spec).                                     *)

\* The iterator runs on a schema without value fields, over a store that
\* holds entries, with aggregations of known operators only.
KeysOnly == NoValue(TheMerger) /\ ~itNil /\ iStore # NoEntries /\ AggsKnown

\* Every stored value is empty, no value was decoded, and a finished Iter has
\* delivered one record per distinct prefix, aggregated over no record.
KeysOnlyRight ==
    /\ \A k \in DOMAIN iStore : iStore[k] = <<>>
    /\ valueMaps = <<>>
    /\ iterPc # "panic"
    /\ iterPc = "done" =>
          /\ Len(emitted) = Cardinality(Prefixes)
          /\ \A i \in 1..Len(emitted) :
                /\ emitted[i].coll = <<>>
                /\ emitted[i].res.ok
                /\ \A a \in 1..Len(aggs) :
                      emitted[i].res.m[aggs[a].name] = AggOn(aggs[a].agg, <<>>)

\* C27: when the schema has zero value fields the writer stores an empty
\* value, Iter never decodes value bytes, and it still emits exactly one
\* merged record per distinct partial-key prefix, each aggregator being
\* evaluated over an empty collection.
C27_KeysOnlyEnumeration == KeysOnly => KeysOnlyRight

\* What holds: the same when at least one partial key is selected.
KeysOnlyWithPartialKey == (KeysOnly /\ partialKeys # <<>>) => KeysOnlyRight

\* Reached: two prefixes enumerated on a schema without value fields, each
\* with a count of 0.
KeysOnlyTwoPrefixes ==
    /\ KeysOnly
    /\ iterPc = "done"
    /\ Len(emitted) = 2
    /\ Len(aggs) = 1
    /\ aggs[1].agg.fn = "count"
    /\ \A i \in 1..2 : emitted[i].res.m["n"] = GoNum("int64", 0)

-----------------------------------------------------------------------------
(* What writing a record does to the record and the schema (SpecWriter).   *)

\* The names of the schema's key fields.
KeyFieldNames == {wDb.keys[i].name : i \in 1..Len(wDb.keys)}

\* The default of a kind: 0, the empty string, JSON null.
DefaultOf(kind) ==
    CASE kind \in IntKinds -> GoNum(kind, 0)
      [] kind = "string" -> GoStr(<<>>)
      [] kind = "json" -> Nil

\* What the record handed to the writer gives the key field, its default when
\* the record leaves the field out.
KeyFieldValue(f) ==
    IF f.name \in DOMAIN wRecord THEN wRecord[f.name] ELSE DefaultOf(f.kind)

RECURSIVE Concat(_)
Concat(parts) == IF parts = <<>> THEN <<>> ELSE Head(parts) \o Concat(Tail(parts))

RecordAfterWrite ==
    /\ DOMAIN wOut.rec = (DOMAIN wRecord) \ KeyFieldNames
    /\ \A name \in DOMAIN wOut.rec : wOut.rec[name] = wRecord[name]

KeyBytesAreConcatenation ==
    wOut.key = Concat([i \in 1..Len(wDb.keys) |->
                          Encode(wDb.keys[i].kind, KeyFieldValue(wDb.keys[i]), build)])

\* C26: writing a record removes from it exactly the fields named by the
\* schema's key fields and leaves every other field of the record, and the
\* schema itself (keys, values, bitmask width), unchanged; the key bytes are
\* the concatenation, in schema order, of the encoded key fields, a key field
\* missing from the record being encoded as the type's default.
C26_WriteRemovesKeyFields ==
    /\ [](wPc \in {"written", "restored"} => RecordAfterWrite /\ KeyBytesAreConcatenation)
    /\ [][wDb' = wDb]_vars

\* Reached: a record written under the keys k, s, j that has k and s, lacks j,
\* and keeps its field zz and a value field.
C26_ThreeKeysOneMissing ==
    /\ wPc = "written"
    /\ Len(wDb.keys) = 3
    /\ {"k", "s", "zz"} \subseteq DOMAIN wRecord
    /\ "j" \notin DOMAIN wRecord
    /\ "zz" \in DOMAIN wOut.rec
    /\ "v1" \in DOMAIN wOut.rec
    /\ Len(wOut.key) = 1 + 4 + 6

-----------------------------------------------------------------------------
(* The sequence number as the last key field (SpecCli).                    *)

\* The run's Recv has returned nil and its commit went through.
RunIngested == mainPc = "iter" /\ committed /\ ~failed

\* C30: in the command-line pipeline every record read from the input is
\* stored as its own entry: no ingested record overwrites an entry stored
\* earlier, including entries stored by an earlier run into the same reopened
\* store directory, so the number of stored entries equals the total number
\* of records ingested.
C30_OneEntryPerRecord == RunIngested => Cardinality(DOMAIN store) = Len(inserted)

\* What holds: within the first run into a new directory.
FirstRunOneEntryPerRecord ==
    (RunIngested /\ run = 1) => Cardinality(DOMAIN store) = Len(inserted)

\* The schema is the same in every run, with _i_ as its last key field.
SequenceNumberIsLastKey ==
    /\ Len(gDb.keys) = 2
    /\ gDb.keys[Len(gDb.keys)] = Field("_i_", "int32")

\* Reached: the second run stored a line over the entry of the first run's
\* line with the same k and the same sequence number.
SecondRunOverwrote ==
    /\ RunIngested
    /\ run = 2
    /\ Len(inserted) = 2
    /\ Cardinality(DOMAIN store) = 1

====
